---- MODULE Spec2Model ----
(***************************************************************************)
(* QNN execution provider: the op-builder pipeline of BaseOpBuilder        *)
(* (ProcessInputs -> ProcessAttributesAndOutputs -> ProcessOutputs), the   *)
(* ONNX-to-QNN element type tables, axis normalisation, and the capability *)
(* query / compile passes that drive the pipeline over a graph.            *)
(***************************************************************************)
EXTENDS Integers, Sequences, FiniteSets, TLC

\* Longest graph (number of node units) a capability query is run on.
MaxNodes == 3
\* Largest input rank and largest |axis| - 1 tried on ProcessAxisAttribute.
MaxRank == 4
\* Most dimensions of a list handed to GetDataSize.
MaxDims == 3

VARIABLES
    is_quantized_model,  \* QNNExecutionProvider::is_quantized_model_
    graph,               \* node units of the source graph, in topological order
    supported,           \* per node unit: the capability query's verdict
    pc,                  \* phase of the provider
    cidx,                \* Compile: index of the next node unit
    model_tensors,       \* accumulator: tensor registry, name -> tensor wrapper
    op_list,             \* accumulator: ordered operator list
    last,                \* what the last op-builder call did
    ncalls,              \* number of op-builder calls made so far
    arg,                 \* argument of a call of a free function
    ret                  \* its result

vars == <<is_quantized_model, graph, supported, pc, cidx, model_tensors, op_list,
          last, ncalls, arg, ret>>

----------------------------------------------------------------------------
(* Status values.  A call ends with Status::OK(), with a failure Status    *)
(* carrying a message, or by throwing (ORT_ENFORCE).                       *)

StatusOK == [code |-> "OK", msg |-> ""]
StatusFail(m) == [code |-> "FAIL", msg |-> m]
Thrown(m) == [code |-> "THROW", msg |-> m]

----------------------------------------------------------------------------
(* Element type mapping.                                                   *)

\* ONNX_NAMESPACE::TensorProto_DataType values a node_arg may carry.
OnnxTypes ==
    {"UNDEFINED", "FLOAT", "UINT8", "INT8", "UINT16", "INT16", "INT32", "INT64",
     "STRING", "BOOL", "FLOAT16", "DOUBLE", "UINT32", "UINT64", "COMPLEX64",
     "COMPLEX128", "BFLOAT16"}

onnx_to_qnn_data_type ==
    ("INT8" :> "QNN_DATATYPE_INT_8") @@
    ("INT16" :> "QNN_DATATYPE_INT_16") @@
    ("INT32" :> "QNN_DATATYPE_INT_32") @@
    ("INT64" :> "QNN_DATATYPE_INT_64") @@
    ("UINT8" :> "QNN_DATATYPE_UINT_8") @@
    ("UINT16" :> "QNN_DATATYPE_UINT_16") @@
    ("UINT32" :> "QNN_DATATYPE_UINT_32") @@
    ("UINT64" :> "QNN_DATATYPE_UINT_64") @@
    ("FLOAT16" :> "QNN_DATATYPE_FLOAT_16") @@
    ("FLOAT" :> "QNN_DATATYPE_FLOAT_32") @@
    ("BOOL" :> "QNN_DATATYPE_BOOL_8")

\* A slip in the quantized table: INT64 given a fixed-point type.
onnx_to_qnn_data_type_quantized_Int64Fixed ==
    ("INT8" :> "QNN_DATATYPE_SFIXED_POINT_8") @@
    ("INT16" :> "QNN_DATATYPE_SFIXED_POINT_16") @@
    ("INT32" :> "QNN_DATATYPE_SFIXED_POINT_32") @@
    ("INT64" :> "QNN_DATATYPE_SFIXED_POINT_32") @@
    ("UINT8" :> "QNN_DATATYPE_UFIXED_POINT_8") @@
    ("UINT16" :> "QNN_DATATYPE_UFIXED_POINT_16") @@
    ("UINT32" :> "QNN_DATATYPE_UFIXED_POINT_32") @@
    ("UINT64" :> "QNN_DATATYPE_UINT_64") @@
    ("FLOAT16" :> "QNN_DATATYPE_FLOAT_16") @@
    ("FLOAT" :> "QNN_DATATYPE_FLOAT_32") @@
    ("BOOL" :> "QNN_DATATYPE_BOOL_8")

onnx_to_qnn_data_type_quantized ==
    ("INT8" :> "QNN_DATATYPE_SFIXED_POINT_8") @@
    ("INT16" :> "QNN_DATATYPE_SFIXED_POINT_16") @@
    ("INT32" :> "QNN_DATATYPE_SFIXED_POINT_32") @@
    ("INT64" :> "QNN_DATATYPE_INT_64") @@
    ("UINT8" :> "QNN_DATATYPE_UFIXED_POINT_8") @@
    ("UINT16" :> "QNN_DATATYPE_UFIXED_POINT_16") @@
    ("UINT32" :> "QNN_DATATYPE_UFIXED_POINT_32") @@
    ("UINT64" :> "QNN_DATATYPE_UINT_64") @@
    ("FLOAT16" :> "QNN_DATATYPE_FLOAT_16") @@
    ("FLOAT" :> "QNN_DATATYPE_FLOAT_32") @@
    ("BOOL" :> "QNN_DATATYPE_BOOL_8")

\* A slip: a miss silently keeps the caller's default type and reports success.
do_type_mapping_DefaultOnMiss(mapping_table, onnx_data_type, qnn_data_type) ==
    IF onnx_data_type \notin DOMAIN mapping_table
    THEN [ok |-> TRUE, qnn_data_type |-> qnn_data_type]
    ELSE [ok |-> TRUE, qnn_data_type |-> mapping_table[onnx_data_type]]

\* The lambda do_type_mapping: qnn_data_type is an out-parameter, left as it
\* was on a miss.
do_type_mapping(mapping_table, onnx_data_type, qnn_data_type) ==
    IF onnx_data_type \notin DOMAIN mapping_table
    THEN [ok |-> FALSE, qnn_data_type |-> qnn_data_type]
    ELSE [ok |-> TRUE, qnn_data_type |-> mapping_table[onnx_data_type]]

OnnxDataTypeToQnnDataType(onnx_data_type, qnn_data_type, is_quantized) ==
    IF is_quantized
    THEN do_type_mapping(onnx_to_qnn_data_type_quantized, onnx_data_type, qnn_data_type)
    ELSE do_type_mapping(onnx_to_qnn_data_type, onnx_data_type, qnn_data_type)

\* BaseOpBuilder::GetQnnDataType: the element type of the type_proto, mapped;
\* a lookup miss is the unsupported-type failure.
UnsupportedTypeMsg == "Failed to map Onnx data type to Qnn data type!"

GetQnnDataType(is_quantized, elem_type, qnn_data_type) ==
    LET r == OnnxDataTypeToQnnDataType(elem_type, qnn_data_type, is_quantized)
    IN  [status |-> IF r.ok THEN StatusOK ELSE StatusFail(UnsupportedTypeMsg),
         qnn_data_type |-> r.qnn_data_type]

----------------------------------------------------------------------------
(* The source graph as the pipeline reads it: node_args, initializers,     *)
(* graph outputs.  Each name is one NodeArg, so every node unit that uses  *)
(* the name sees the same type and shape.                                  *)

NodeArgNames == {"x", "w", "s", "u", "b", "m", "h", "g", "y", "t"}

\* Graph-level inputs, initializers, and the names node units produce.
GraphInputs == {"x", "s", "u", "m"}
Initializers == {"w", "b"}
Produced == {"h", "g", "y", "t"}
GraphOutputs == {"y"}

NodeArg(name) ==
    CASE name = "x" -> [elem_type |-> "FLOAT", has_shape |-> TRUE, shape |-> <<2, 3>>]
      [] name = "w" -> [elem_type |-> "UINT8", has_shape |-> TRUE, shape |-> <<3>>]
      [] name = "s" -> [elem_type |-> "STRING", has_shape |-> TRUE, shape |-> <<3>>]
      [] name = "u" -> [elem_type |-> "FLOAT", has_shape |-> FALSE, shape |-> <<>>]
      [] name = "b" -> [elem_type |-> "FLOAT", has_shape |-> TRUE, shape |-> <<3>>]
      [] name = "m" -> [elem_type |-> "FLOAT", has_shape |-> TRUE, shape |-> <<2, 3>>]
      [] name = "h" -> [elem_type |-> "FLOAT", has_shape |-> TRUE, shape |-> <<2, 3>>]
      [] name = "g" -> [elem_type |-> "FLOAT", has_shape |-> TRUE, shape |-> <<2, 3>>]
      [] name = "y" -> [elem_type |-> "FLOAT", has_shape |-> TRUE, shape |-> <<2>>]
      [] name = "t" -> [elem_type |-> "STRING", has_shape |-> TRUE, shape |-> <<2>>]

\* QnnModelWrapper::GetOnnxShape: false when the node_arg has no shape.
GetOnnxShape(name) ==
    [ok |-> NodeArg(name).has_shape, shape |-> NodeArg(name).shape]

IsInitializerInput(name) == name \in Initializers

IsGraphOutput(graph_outputs, name) == name \in graph_outputs

\* utils::UnpackInitializerData: fails on an initializer whose raw data
\* cannot be read ("b").
UnpackInitializerData(name) ==
    IF name = "b" THEN StatusFail("UnpackInitializerData failed") ELSE StatusOK

\* Optional NodeUnitIODef::QuantParam of one input or output of a node unit.
NoQuantParam == [has_value |-> FALSE, valid |-> TRUE, scale |-> 0, offset |-> 0]
QuantParam(s, o) == [has_value |-> TRUE, valid |-> TRUE, scale |-> s, offset |-> o]
BadQuantParam == [has_value |-> TRUE, valid |-> FALSE, scale |-> 0, offset |-> 0]

\* QNN_QUANTIZE_PARAMS_INIT followed by InitializeQuantizeParam.
InitializeQuantizeParam(is_quantized) ==
    [encoding |-> IF is_quantized THEN "SCALE_OFFSET" ELSE "UNDEFINED",
     scale |-> 0, offset |-> 0]

\* QnnModelWrapper::ProcessQuantizationParameter: scale and offset are
\* out-parameters, written only when the quant_param has a value.
ProcessQuantizationParameter(quant_param, scale, offset) ==
    IF ~quant_param.has_value THEN [ok |-> TRUE, scale |-> scale, offset |-> offset]
    ELSE IF ~quant_param.valid THEN [ok |-> FALSE, scale |-> scale, offset |-> offset]
    ELSE [ok |-> TRUE, scale |-> quant_param.scale, offset |-> quant_param.offset]

----------------------------------------------------------------------------
(* The accumulator (QnnModelWrapper).                                      *)

QnnContainsTensor(tensors, name) == name \in DOMAIN tensors

\* QnnModelWrapper::AddTensor: a name already present is left as it is
\* (true); a descriptor the backend rejects ("m") is not added (false).
AddTensor(tensors, name, wrapper) ==
    IF QnnContainsTensor(tensors, name) THEN [ok |-> TRUE, tensors |-> tensors]
    ELSE IF name = "m" THEN [ok |-> FALSE, tensors |-> tensors]
    ELSE [ok |-> TRUE, tensors |-> tensors @@ (name :> wrapper)]

RECURSIVE AddOutputTensors(_, _, _)
AddOutputTensors(tensors, wrappers, i) ==
    IF i > Len(wrappers) THEN tensors
    ELSE AddOutputTensors(AddTensor(tensors, wrappers[i].name, wrappers[i]).tensors,
                          wrappers, i + 1)

\* QnnModelWrapper::AddNode: fails when an input name is not registered;
\* with do_op_validation the backend validates the operator and nothing is
\* kept; without it the operator is appended and its outputs registered.
AddNode(tensors, ops, op, backend_ok, do_op_validation) ==
    IF \E i \in 1..Len(op.input_names) : ~QnnContainsTensor(tensors, op.input_names[i])
    THEN [ok |-> FALSE, tensors |-> tensors, ops |-> ops]
    ELSE IF do_op_validation
    THEN [ok |-> backend_ok, tensors |-> tensors, ops |-> ops]
    ELSE [ok |-> TRUE,
          tensors |-> AddOutputTensors(tensors, op.outputs, 1),
          ops |-> Append(ops, op)]

----------------------------------------------------------------------------
(* BaseOpBuilder.                                                          *)

\* BaseOpBuilder::output_count_, the most outputs ProcessOutputs builds.
output_count_ == 1

QnnTensorWrapper(name, tensor_type, qnn_data_type, quantize_param, shape, has_data) ==
    [name |-> name, tensor_type |-> tensor_type, data_type |-> qnn_data_type,
     quantize_param |-> quantize_param, shape |-> shape, has_data |-> has_data]

\* The role ProcessInputs gives a tensor it registers.
InputTensorType(is_initializer_input) ==
    IF is_initializer_input THEN "QNN_TENSOR_TYPE_STATIC" ELSE "QNN_TENSOR_TYPE_APP_WRITE"

\* The role ProcessOutputs gives an output tensor.
\* A slip: the graph-output test dropped.
OutputTensorType_AlwaysNative(is_graph_output) == "QNN_TENSOR_TYPE_NATIVE"

OutputTensorType(is_graph_output) ==
    IF is_graph_output THEN "QNN_TENSOR_TYPE_APP_READ" ELSE "QNN_TENSOR_TYPE_NATIVE"

\* The loop of ProcessInputs from input_i on.  quantize_param and
\* qnn_data_type are the locals declared before the loop; fail_input is the
\* index of the input whose handling returned the error (0: none).
RECURSIVE ProcessInputsFrom(_, _, _, _, _, _, _)
ProcessInputsFrom(tensors, inputs, is_quantized, input_i, quantize_param, qnn_data_type, input_names) ==
    IF input_i > Len(inputs)
    THEN [status |-> StatusOK, tensors |-> tensors, input_names |-> input_names,
          fail_input |-> 0]
    ELSE
    LET input_name == inputs[input_i].name
        Failed(st) == [status |-> st, tensors |-> tensors,
                       input_names |-> input_names, fail_input |-> input_i]
    IN
    IF QnnContainsTensor(tensors, input_name)
    THEN ProcessInputsFrom(tensors, inputs, is_quantized, input_i + 1, quantize_param,
                           qnn_data_type, Append(input_names, input_name))
    ELSE
    LET ty == GetQnnDataType(is_quantized, NodeArg(input_name).elem_type, qnn_data_type)
        sh == GetOnnxShape(input_name)
        qp == ProcessQuantizationParameter(inputs[input_i].quant_param,
                                           quantize_param.scale, quantize_param.offset)
        new_param == [quantize_param EXCEPT !.scale = qp.scale, !.offset = qp.offset]
        is_initializer_input == IsInitializerInput(input_name)
        tensor_type == InputTensorType(is_initializer_input)
        input_tensorwrapper ==
            QnnTensorWrapper(input_name, tensor_type, ty.qnn_data_type, new_param,
                             sh.shape, is_initializer_input)
        added == AddTensor(tensors, input_name, input_tensorwrapper)
    IN
    IF ty.status.code # "OK" THEN Failed(ty.status)
    ELSE IF ~sh.ok THEN Failed(StatusFail("Cannot get shape"))
    ELSE IF ~qp.ok THEN Failed(StatusFail("Cannot get quantization parameter"))
    ELSE IF is_initializer_input /\ UnpackInitializerData(input_name).code # "OK"
    THEN Failed(UnpackInitializerData(input_name))
    ELSE IF ~added.ok THEN Failed(StatusFail("Failed to add tensor."))
    ELSE ProcessInputsFrom(added.tensors, inputs, is_quantized, input_i + 1, new_param,
                           ty.qnn_data_type, Append(input_names, input_name))

\* A slip: with do_op_validation the registry is left as it was.
ProcessInputs_SkipAddInValidation(tensors, node_unit, is_quantized, do_op_validation) ==
    LET r == ProcessInputsFrom(tensors, node_unit.inputs, is_quantized, 1,
                               InitializeQuantizeParam(is_quantized),
                               "QNN_DATATYPE_FLOAT_32", <<>>)
    IN  IF do_op_validation THEN [r EXCEPT !.tensors = tensors] ELSE r

\* A slip: no "already added" test, every input is resolved and written
\* over the entry the registry holds.
ProcessInputs_NoSkip(tensors, node_unit, is_quantized, do_op_validation) ==
    LET r == ProcessInputsFrom(<<>>, node_unit.inputs, is_quantized, 1,
                               InitializeQuantizeParam(is_quantized),
                               "QNN_DATATYPE_FLOAT_32", <<>>)
    IN  [r EXCEPT !.tensors = r.tensors @@ tensors]

\* A slip: a failing call gives back the registry it started from.
ProcessInputs_RollbackOnFailure(tensors, node_unit, is_quantized, do_op_validation) ==
    LET r == ProcessInputsFrom(tensors, node_unit.inputs, is_quantized, 1,
                               InitializeQuantizeParam(is_quantized),
                               "QNN_DATATYPE_FLOAT_32", <<>>)
    IN  IF r.status.code = "OK" THEN r ELSE [r EXCEPT !.tensors = tensors]

\* A slip: an input that was in the registry when the call began is left
\* out of the input-name list.
ProcessInputs_SkippedNameDropped(tensors, node_unit, is_quantized, do_op_validation) ==
    LET r == ProcessInputsFrom(tensors, node_unit.inputs, is_quantized, 1,
                               InitializeQuantizeParam(is_quantized),
                               "QNN_DATATYPE_FLOAT_32", <<>>)
    IN  [r EXCEPT !.input_names =
                      SelectSeq(r.input_names, LAMBDA n : n \notin DOMAIN tensors)]

ProcessInputs(tensors, node_unit, is_quantized, do_op_validation) ==
    ProcessInputsFrom(tensors, node_unit.inputs, is_quantized, 1,
                      InitializeQuantizeParam(is_quantized), "QNN_DATATYPE_FLOAT_32", <<>>)

\* The loop of ProcessOutputs from output_i on: the output wrappers built,
\* or the first error.
RECURSIVE ProcessOutputsFrom(_, _, _, _, _)
ProcessOutputsFrom(outputs, graph_outputs, is_quantized, output_i, qnn_outputs) ==
    IF ~(output_i <= Len(outputs) /\ output_i <= output_count_)
    THEN [status |-> StatusOK, qnn_outputs |-> qnn_outputs, fail_output |-> 0]
    ELSE
    LET output_name == outputs[output_i].name
        quantize_param == InitializeQuantizeParam(is_quantized)
        ty == GetQnnDataType(is_quantized, NodeArg(output_name).elem_type,
                             "QNN_DATATYPE_FLOAT_32")
        qp == ProcessQuantizationParameter(outputs[output_i].quant_param,
                                           quantize_param.scale, quantize_param.offset)
        sh == GetOnnxShape(output_name)
        tensor_type == OutputTensorType(IsGraphOutput(graph_outputs, output_name))
        qnn_output ==
            QnnTensorWrapper(output_name, tensor_type, ty.qnn_data_type,
                             [quantize_param EXCEPT !.scale = qp.scale,
                                                    !.offset = qp.offset],
                             sh.shape, FALSE)
        Failed(st) == [status |-> st, qnn_outputs |-> qnn_outputs,
                       fail_output |-> output_i]
    IN
    IF ty.status.code # "OK" THEN Failed(ty.status)
    ELSE IF ~qp.ok THEN Failed(StatusFail("Cannot get quantization parameter"))
    ELSE IF ~sh.ok THEN Failed(StatusFail("Cannot get shape"))
    ELSE ProcessOutputsFrom(outputs, graph_outputs, is_quantized, output_i + 1,
                            Append(qnn_outputs, qnn_output))

\* What a stage that did not reach AddNode reports of it (op: the operator
\* handed to AddNode).
NoAddNode == [called |-> FALSE, input_names |-> <<>>, inputs_present |-> TRUE, op |-> <<>>]

\* A slip: the operator is built without the accumulated parameters.
ProcessOutputsAddNode_ParamsDropped(outs, tensors, ops, node_unit, input_names, node_params, do_op_validation) ==
    LET op == [name |-> node_unit.name, op_type |-> node_unit.op_type,
               params |-> <<>>, input_names |-> input_names,
               outputs |-> outs.qnn_outputs]
        added == AddNode(tensors, ops, op, node_unit.backend_ok, do_op_validation)
    IN
    IF outs.status.code # "OK"
    THEN [status |-> outs.status, tensors |-> tensors, ops |-> ops,
          add_node |-> NoAddNode, fail_output |-> outs.fail_output]
    ELSE [status |-> IF added.ok THEN StatusOK ELSE StatusFail("Failed to add node."),
          tensors |-> added.tensors, ops |-> added.ops,
          add_node |-> [called |-> TRUE, input_names |-> input_names,
                        inputs_present |->
                            \A i \in 1..Len(input_names) :
                                QnnContainsTensor(tensors, input_names[i]),
                        op |-> op],
          fail_output |-> 0]

\* The end of ProcessOutputs: outs is what the loop over the outputs gave.
ProcessOutputsAddNode(outs, tensors, ops, node_unit, input_names, node_params, do_op_validation) ==
    LET op == [name |-> node_unit.name, op_type |-> node_unit.op_type,
               params |-> node_params, input_names |-> input_names,
               outputs |-> outs.qnn_outputs]
        added == AddNode(tensors, ops, op, node_unit.backend_ok, do_op_validation)
    IN
    IF outs.status.code # "OK"
    THEN [status |-> outs.status, tensors |-> tensors, ops |-> ops,
          add_node |-> NoAddNode, fail_output |-> outs.fail_output]
    ELSE [status |-> IF added.ok THEN StatusOK ELSE StatusFail("Failed to add node."),
          tensors |-> added.tensors, ops |-> added.ops,
          add_node |-> [called |-> TRUE, input_names |-> input_names,
                        inputs_present |->
                            \A i \in 1..Len(input_names) :
                                QnnContainsTensor(tensors, input_names[i]),
                        op |-> op],
          fail_output |-> 0]

\* A slip: do_op_validation not handed on to AddNode.
ProcessOutputs_AlwaysPersist(tensors, ops, graph_outputs, node_unit, input_names, node_params, is_quantized, do_op_validation) ==
    ProcessOutputsAddNode(
        ProcessOutputsFrom(node_unit.outputs, graph_outputs, is_quantized, 1, <<>>),
        tensors, ops, node_unit, input_names, node_params, FALSE)

ProcessOutputs(tensors, ops, graph_outputs, node_unit, input_names, node_params, is_quantized, do_op_validation) ==
    ProcessOutputsAddNode(
        ProcessOutputsFrom(node_unit.outputs, graph_outputs, is_quantized, 1, <<>>),
        tensors, ops, node_unit, input_names, node_params, do_op_validation)

\* A slip: the test for an empty input-name list is missing.
ProcessAttributesAndOutputs_NoEmptyCheck(tensors, ops, graph_outputs, node_unit, input_names, is_quantized, do_op_validation) ==
    ProcessOutputs(tensors, ops, graph_outputs, node_unit, input_names, <<>>,
                   is_quantized, do_op_validation)

\* BaseOpBuilder::ProcessAttributesAndOutputs, the default second stage.
ProcessAttributesAndOutputs(tensors, ops, graph_outputs, node_unit, input_names, is_quantized, do_op_validation) ==
    IF Len(input_names) < 1
    THEN [status |-> StatusOK, tensors |-> tensors, ops |-> ops,
          add_node |-> NoAddNode, fail_output |-> 0]
    ELSE ProcessOutputs(tensors, ops, graph_outputs, node_unit, input_names, <<>>,
                        is_quantized, do_op_validation)

\* NodeAttrHelper::Get(key, default): the attribute's value, or the default
\* when the node has no such attribute.
NodeAttrGet(attrs, key, def) == IF key \in DOMAIN attrs THEN attrs[key] ELSE def

\* A slip: the range test lets onnx_axis = rank through.
ProcessAxisAttribute_OffByOne(input0_shape, op_type, attrs, node_params, default_axis_value) ==
    LET rank == Len(input0_shape.shape)
        attr_axis == IF "axis" \in DOMAIN attrs THEN attrs["axis"] ELSE default_axis_value
        onnx_axis == IF attr_axis < 0 THEN attr_axis + rank ELSE attr_axis
        axis_param ==
            [name |-> "axis",
             scalar |-> [dataType |-> IF op_type = "Gather" THEN "QNN_DATATYPE_INT_32"
                                      ELSE "QNN_DATATYPE_UINT_32",
                         value |-> onnx_axis]]
    IN
    IF ~input0_shape.ok
    THEN [status |-> StatusFail("Cannot get shape"), node_params |-> node_params,
          default_axis_value |-> default_axis_value]
    ELSE IF ~(onnx_axis >= 0 /\ onnx_axis <= rank)
    THEN [status |-> Thrown("QNN requires axis range [0, rank-1]."),
          node_params |-> node_params, default_axis_value |-> default_axis_value]
    ELSE [status |-> StatusOK, node_params |-> Append(node_params, axis_param),
          default_axis_value |-> onnx_axis]

\* A slip: the axis scalar is unsigned for every op type.
ProcessAxisAttribute_AlwaysUnsigned(input0_shape, op_type, attrs, node_params, default_axis_value) ==
    LET rank == Len(input0_shape.shape)
        attr_axis == NodeAttrGet(attrs, "axis", default_axis_value)
        onnx_axis == IF attr_axis < 0 THEN attr_axis + rank ELSE attr_axis
        axis_param == [name |-> "axis",
                       scalar |-> [dataType |-> "QNN_DATATYPE_UINT_32", value |-> onnx_axis]]
    IN
    IF ~input0_shape.ok
    THEN [status |-> StatusFail("Cannot get shape"), node_params |-> node_params,
          default_axis_value |-> default_axis_value]
    ELSE IF ~(onnx_axis >= 0 /\ onnx_axis < rank)
    THEN [status |-> Thrown("QNN requires axis range [0, rank-1]."),
          node_params |-> node_params, default_axis_value |-> default_axis_value]
    ELSE [status |-> StatusOK, node_params |-> Append(node_params, axis_param),
          default_axis_value |-> onnx_axis]

\* BaseOpBuilder::ProcessAxisAttribute.  input0_shape is what GetOnnxShape
\* gives for inputs[0]; default_axis_value is an in-out parameter.  The
\* scalar is built after the ORT_ENFORCE, where onnx_axis >= 0, so the cast
\* to uint32_t keeps the value.
ProcessAxisAttribute(input0_shape, op_type, attrs, node_params, default_axis_value) ==
    LET rank == Len(input0_shape.shape)
        attr_axis == NodeAttrGet(attrs, "axis", default_axis_value)
        onnx_axis == IF attr_axis < 0 THEN attr_axis + rank ELSE attr_axis
        is_gather_op == (op_type = "Gather")
        axis_qnn_scalar ==
            IF is_gather_op
            THEN [dataType |-> "QNN_DATATYPE_INT_32", value |-> onnx_axis]
            ELSE [dataType |-> "QNN_DATATYPE_UINT_32", value |-> onnx_axis]
        axis_param == [name |-> "axis", scalar |-> axis_qnn_scalar]
    IN
    IF ~input0_shape.ok
    THEN [status |-> StatusFail("Cannot get shape"), node_params |-> node_params,
          default_axis_value |-> default_axis_value]
    ELSE IF ~(onnx_axis >= 0 /\ onnx_axis < rank)
    THEN [status |-> Thrown("QNN requires axis range [0, rank-1]."),
          node_params |-> node_params, default_axis_value |-> default_axis_value]
    ELSE [status |-> StatusOK, node_params |-> Append(node_params, axis_param),
          default_axis_value |-> onnx_axis]

\* A slip: select_last_index is read but never tested.
ArgMaxMinProcessAttributesAndOutputs_NoSelectCheck(tensors, ops, graph_outputs, node_unit, input_names, is_quantized, do_op_validation) ==
    LET ax == ProcessAxisAttribute(GetOnnxShape(node_unit.inputs[1].name),
                                   node_unit.op_type, node_unit.attrs, <<>>, 0)
        onnx_keepdims == NodeAttrGet(node_unit.attrs, "keepdims", 1)
        keep_dims_param ==
            [name |-> "keep_dims",
             scalar |-> [dataType |-> "QNN_DATATYPE_BOOL_8",
                         value |-> IF onnx_keepdims = 0 THEN 0 ELSE 1]]
    IN
    IF ax.status.code # "OK"
    THEN [status |-> ax.status, tensors |-> tensors, ops |-> ops,
          add_node |-> NoAddNode, fail_output |-> 0]
    ELSE ProcessOutputs(tensors, ops, graph_outputs, node_unit, input_names,
                        Append(ax.node_params, keep_dims_param), is_quantized,
                        do_op_validation)

\* ArgMaxMinOpBuilder::ProcessAttributesAndOutputs.
ArgMaxMinProcessAttributesAndOutputs(tensors, ops, graph_outputs, node_unit, input_names, is_quantized, do_op_validation) ==
    LET ax == ProcessAxisAttribute(GetOnnxShape(node_unit.inputs[1].name),
                                   node_unit.op_type, node_unit.attrs, <<>>, 0)
        select_last_index == NodeAttrGet(node_unit.attrs, "select_last_index", 0)
        onnx_keepdims == NodeAttrGet(node_unit.attrs, "keepdims", 1)
        keep_dims_param ==
            [name |-> "keep_dims",
             scalar |-> [dataType |-> "QNN_DATATYPE_BOOL_8",
                         value |-> IF onnx_keepdims = 0 THEN 0 ELSE 1]]
        Failed(st) == [status |-> st, tensors |-> tensors, ops |-> ops,
                       add_node |-> NoAddNode, fail_output |-> 0]
    IN
    IF ax.status.code # "OK" THEN Failed(ax.status)
    ELSE IF select_last_index # 0
    THEN Failed(StatusFail("QNN ArgMax/ArgMin only support select_last_index=0."))
    ELSE ProcessOutputs(tensors, ops, graph_outputs, node_unit, input_names,
                        Append(ax.node_params, keep_dims_param), is_quantized,
                        do_op_validation)

\* The builder registered for an op type ("NONE": no builder).  "Relu"
\* stands for a builder that overrides no stage of BaseOpBuilder.
GetOpBuilder(op_type) ==
    CASE op_type \in {"ArgMax", "ArgMin"} -> "ArgMaxMinOpBuilder"
      [] op_type = "Relu" -> "BaseOpBuilder"
      [] OTHER -> "NONE"

\* The return value of AddToModelBuilder when ProcessInputs succeeded (ins)
\* and the second stage gave st2.
AddToModelBuilderReturn(ins, st2) ==
    [status |-> st2.status, tensors |-> st2.tensors, ops |-> st2.ops,
     input_names |-> ins.input_names, fail_input |-> 0,
     stage2_called |-> TRUE, add_node |-> st2.add_node,
     fail_output |-> st2.fail_output]

\* A slip: the error of ProcessInputs is returned only after the second
\* stage ran.
AddToModelBuilderStage2_NoEarlyReturn(ins, ops, graph_outputs, node_unit, is_quantized, do_op_validation) ==
    LET st2 == ProcessAttributesAndOutputs(ins.tensors, ops, graph_outputs, node_unit,
                                           ins.input_names, is_quantized,
                                           do_op_validation)
    IN  [status |-> IF ins.status.code # "OK" THEN ins.status ELSE st2.status,
         tensors |-> st2.tensors, ops |-> st2.ops,
         input_names |-> ins.input_names, fail_input |-> ins.fail_input,
         stage2_called |-> TRUE, add_node |-> st2.add_node,
         fail_output |-> st2.fail_output]

\* A slip: the status of ProcessInputs is dropped and the second stage runs
\* on whatever input names were resolved.
AddToModelBuilderStage2_InputsStatusDropped(ins, ops, graph_outputs, node_unit, is_quantized, do_op_validation) ==
    AddToModelBuilderReturn(ins,
        IF GetOpBuilder(node_unit.op_type) = "ArgMaxMinOpBuilder"
        THEN ArgMaxMinProcessAttributesAndOutputs(
                 ins.tensors, ops, graph_outputs, node_unit, ins.input_names,
                 is_quantized, do_op_validation)
        ELSE ProcessAttributesAndOutputs(
                 ins.tensors, ops, graph_outputs, node_unit, ins.input_names,
                 is_quantized, do_op_validation))

\* AddToModelBuilder after ProcessInputs returned ins: ORT_RETURN_IF_ERROR,
\* then the builder's second stage (virtual dispatch).
AddToModelBuilderStage2(ins, ops, graph_outputs, node_unit, is_quantized, do_op_validation) ==
    IF ins.status.code # "OK"
    THEN [status |-> ins.status, tensors |-> ins.tensors, ops |-> ops,
          input_names |-> ins.input_names, fail_input |-> ins.fail_input,
          stage2_called |-> FALSE, add_node |-> NoAddNode, fail_output |-> 0]
    ELSE AddToModelBuilderReturn(ins,
            IF GetOpBuilder(node_unit.op_type) = "ArgMaxMinOpBuilder"
            THEN ArgMaxMinProcessAttributesAndOutputs(
                     ins.tensors, ops, graph_outputs, node_unit, ins.input_names,
                     is_quantized, do_op_validation)
            ELSE ProcessAttributesAndOutputs(
                     ins.tensors, ops, graph_outputs, node_unit, ins.input_names,
                     is_quantized, do_op_validation))

\* BaseOpBuilder::AddToModelBuilder.
AddToModelBuilder(tensors, ops, graph_outputs, node_unit, is_quantized, do_op_validation) ==
    AddToModelBuilderStage2(
        ProcessInputs(tensors, node_unit, is_quantized, do_op_validation),
        ops, graph_outputs, node_unit, is_quantized, do_op_validation)

\* BaseOpBuilder::IsOpSupported.
IsOpSupported(tensors, ops, graph_outputs, node_unit, is_quantized) ==
    AddToModelBuilder(tensors, ops, graph_outputs, node_unit, is_quantized, TRUE)

----------------------------------------------------------------------------
(* Node units the provider is run on.                                      *)

IODef(n, q) == [name |-> n, quant_param |-> q]
Plain(n) == IODef(n, NoQuantParam)

NodeUnit(op_type, inputs, outputs, attrs, backend_ok) ==
    [name |-> outputs[1].name, op_type |-> op_type, inputs |-> inputs,
     outputs |-> outputs, attrs |-> attrs, backend_ok |-> backend_ok]

NoAttrs == <<>>

InputLists ==
    {<<>>,
     <<Plain("x")>>,
     <<Plain("w")>>,
     <<IODef("x", BadQuantParam)>>,
     <<Plain("w"), IODef("x", BadQuantParam)>>,
     <<IODef("x", QuantParam(2, 1)), Plain("w")>>,
     <<Plain("x"), Plain("x")>>,
     <<Plain("w"), Plain("s")>>,
     <<IODef("x", BadQuantParam), Plain("s")>>,
     <<Plain("s")>>,
     <<Plain("u")>>,
     <<Plain("b")>>,
     <<Plain("m")>>,
     <<Plain("h")>>,
     <<Plain("y")>>}

ArgAttrs ==
    {NoAttrs,
     ("axis" :> -1),
     ("axis" :> 2),
     ("axis" :> -1) @@ ("select_last_index" :> 1),
     ("axis" :> 2) @@ ("select_last_index" :> 1),
     ("axis" :> 0) @@ ("select_last_index" :> 0),
     ("axis" :> 1) @@ ("keepdims" :> 0)}

NodeUnits ==
    {NodeUnit("Relu", ins, <<Plain("h")>>, NoAttrs, TRUE) : ins \in InputLists}
    \cup {NodeUnit("Relu", ins, outs, NoAttrs, TRUE) :
            ins \in {<<Plain("x")>>, <<Plain("w"), IODef("x", BadQuantParam)>>,
                     <<Plain("h")>>},
            outs \in {<<Plain("y")>>, <<Plain("t")>>, <<Plain("y"), Plain("t")>>,
                      <<Plain("g")>>}}
    \cup {NodeUnit("Relu", <<Plain("x")>>, <<Plain("h")>>, NoAttrs, FALSE)}
    \cup {NodeUnit(op, <<Plain("x")>>, <<Plain("y")>>, attrs, TRUE) :
            op \in {"ArgMax"}, attrs \in ArgAttrs}
    \cup {NodeUnit("ArgMin", <<Plain("h")>>, <<Plain("g")>>, ("axis" :> -2), TRUE),
          NodeUnit("ArgMin", <<Plain("u")>>, <<Plain("g")>>, ("select_last_index" :> 1), TRUE),
          NodeUnit("Gelu", <<Plain("x")>>, <<Plain("h")>>, NoAttrs, TRUE)}

Names(iodefs) == {iodefs[i].name : i \in 1..Len(iodefs)}

RECURSIVE ProducedBy(_)
ProducedBy(g) ==
    IF g = <<>> THEN {} ELSE Names(g[Len(g)].outputs) \cup ProducedBy(SubSeq(g, 1, Len(g) - 1))

\* A graph is in topological order and every name has one producer.
CanFollow(g, nd) ==
    /\ Names(nd.outputs) \subseteq Produced
    /\ Cardinality(Names(nd.outputs)) = Len(nd.outputs)
    /\ Names(nd.outputs) \cap ProducedBy(g) = {}
    /\ Names(nd.inputs) \cap Produced \subseteq ProducedBy(g)

\* Outputs of the fused subgraph handed to Compile: what its node units
\* produce and the graph outputs or a node unit outside it reads.
SubgraphOutputs(g, sup) ==
    {n \in Produced :
        /\ \E i \in 1..Len(g) : sup[i] /\ n \in Names(g[i].outputs)
        /\ \/ n \in GraphOutputs
           \/ \E j \in 1..Len(g) : ~sup[j] /\ n \in Names(g[j].inputs)}

----------------------------------------------------------------------------
(* The provider: GetCapability over the graph, then Compile.               *)

NoCall ==
    [kind |-> "none", node_unit |-> <<>>, do_op_validation |-> FALSE,
     status |-> StatusOK, input_names |-> <<>>, fail_input |-> 0, fail_output |-> 0,
     stage2_called |-> FALSE, add_node |-> NoAddNode,
     tensors_before |-> <<>>, ops_before |-> <<>>, tensors |-> <<>>, ops |-> <<>>]

Call(node_unit, do_op_validation, r, tensors, ops) ==
    [kind |-> "call", node_unit |-> node_unit, do_op_validation |-> do_op_validation,
     status |-> r.status, input_names |-> r.input_names, fail_input |-> r.fail_input,
     fail_output |-> r.fail_output, stage2_called |-> r.stage2_called,
     add_node |-> r.add_node, tensors_before |-> tensors, ops_before |-> ops,
     tensors |-> r.tensors, ops |-> r.ops]

NoArg == [fn |-> "none"]

Init ==
    /\ is_quantized_model \in BOOLEAN
    /\ graph = <<>>
    /\ supported = <<>>
    /\ pc = "capability"
    /\ cidx = 0
    /\ model_tensors = <<>>
    /\ op_list = <<>>
    /\ last = NoCall
    /\ ncalls = 0
    /\ arg = NoArg
    /\ ret = NoArg

\* A slip: a node unit without a builder is reported supported.
IsNodeSupported_NoBuilderAccepted(nd) ==
    /\ pc = "capability"
    /\ Len(graph) < MaxNodes
    /\ CanFollow(graph, nd)
    /\ graph' = Append(graph, nd)
    /\ IF GetOpBuilder(nd.op_type) = "NONE"
       THEN /\ supported' = Append(supported, TRUE)
            /\ last' = [NoCall EXCEPT !.kind = "no_builder", !.node_unit = nd]
            /\ UNCHANGED <<pc, model_tensors, op_list, ncalls>>
       ELSE /\ last' = Call(nd, TRUE,
                            IsOpSupported(model_tensors, op_list, GraphOutputs, nd,
                                          is_quantized_model),
                            model_tensors, op_list)
            /\ supported' = Append(supported, last'.status.code = "OK")
            /\ model_tensors' = last'.tensors
            /\ op_list' = last'.ops
            /\ ncalls' = ncalls + 1
            /\ pc' = IF last'.status.code = "THROW" THEN "aborted" ELSE pc
    /\ UNCHANGED <<is_quantized_model, cidx, arg, ret>>

\* QNNExecutionProvider::IsNodeSupported on the next node unit of the graph,
\* against the scratch accumulator of this GetCapability call.
IsNodeSupported(nd) ==
    /\ pc = "capability"
    /\ Len(graph) < MaxNodes
    /\ CanFollow(graph, nd)
    /\ graph' = Append(graph, nd)
    /\ IF GetOpBuilder(nd.op_type) = "NONE"
       THEN /\ supported' = Append(supported, FALSE)
            /\ last' = [NoCall EXCEPT !.kind = "no_builder", !.node_unit = nd]
            /\ UNCHANGED <<pc, model_tensors, op_list, ncalls>>
       ELSE /\ last' = Call(nd, TRUE,
                            IsOpSupported(model_tensors, op_list, GraphOutputs, nd,
                                          is_quantized_model),
                            model_tensors, op_list)
            /\ supported' = Append(supported, last'.status.code = "OK")
            /\ model_tensors' = last'.tensors
            /\ op_list' = last'.ops
            /\ ncalls' = ncalls + 1
            /\ pc' = IF last'.status.code = "THROW" THEN "aborted" ELSE pc
    /\ UNCHANGED <<is_quantized_model, cidx, arg, ret>>

RECURSIVE GetSupportedNodesFrom(_, _, _, _, _)
RECURSIVE GetSupportedNodesStep(_, _, _, _, _)

\* GetSupportedNodes after the call for node unit i returned r.
GetSupportedNodesStep(g, i, r, sup, is_quantized) ==
    GetSupportedNodesFrom(g, i + 1, r.tensors, Append(sup, r.status.code = "OK"),
                          is_quantized)

\* GetSupportedNodes from node unit i on, with the scratch accumulator's
\* registry as the earlier node units left it.
GetSupportedNodesFrom(g, i, tensors, sup, is_quantized) ==
    IF i > Len(g) THEN sup
    ELSE IF GetOpBuilder(g[i].op_type) = "NONE"
    THEN GetSupportedNodesFrom(g, i + 1, tensors, Append(sup, FALSE), is_quantized)
    ELSE GetSupportedNodesStep(
             g, i, IsOpSupported(tensors, <<>>, GraphOutputs, g[i], is_quantized),
             sup, is_quantized)

\* A slip: the accumulator of the earlier query is used again.
GetSupportedNodes_KeepAccumulator(g, is_quantized) ==
    GetSupportedNodesFrom(g, 1, model_tensors, <<>>, is_quantized)

\* QNNExecutionProvider::GetSupportedNodes: one pass over the node units in
\* topological order against a scratch accumulator of its own.
GetSupportedNodes(g, is_quantized) ==
    GetSupportedNodesFrom(g, 1, <<>>, <<>>, is_quantized)

\* The engine calls GetCapability once more on the graph as it is.
GetCapabilityAgain ==
    /\ pc = "capability"
    /\ Len(graph) >= 1
    /\ ret' = [fn |-> "GetCapability", graph |-> graph,
               supported |-> GetSupportedNodes(graph, is_quantized_model)]
    /\ pc' = "requeried"
    /\ UNCHANGED <<is_quantized_model, graph, supported, cidx, model_tensors, op_list,
                   last, ncalls, arg>>

\* QNNExecutionProvider::Compile starts on the supported node units with a
\* fresh accumulator.
StartCompile ==
    /\ pc = "capability"
    /\ \E i \in 1..Len(graph) : supported[i]
    /\ pc' = "compile"
    /\ cidx' = 1
    /\ model_tensors' = <<>>
    /\ op_list' = <<>>
    /\ last' = NoCall
    /\ UNCHANGED <<is_quantized_model, graph, supported, ncalls, arg, ret>>

\* A slip: a node unit whose translation fails is left out of the subgraph
\* and Compile goes on.
CompileNode_SkipFailed ==
    /\ pc = "compile"
    /\ cidx <= Len(graph)
    /\ IF ~supported[cidx]
       THEN /\ cidx' = cidx + 1
            /\ UNCHANGED <<pc, model_tensors, op_list, last, ncalls>>
       ELSE /\ last' = Call(graph[cidx], FALSE,
                            AddToModelBuilder(model_tensors, op_list,
                                              SubgraphOutputs(graph, supported),
                                              graph[cidx], is_quantized_model, FALSE),
                            model_tensors, op_list)
            /\ model_tensors' = last'.tensors
            /\ op_list' = last'.ops
            /\ ncalls' = ncalls + 1
            /\ pc' = pc
            /\ cidx' = cidx + 1
    /\ UNCHANGED <<is_quantized_model, graph, supported, arg, ret>>

\* Compile: the next node unit of the subgraph goes through its builder's
\* AddToModelBuilder; a node unit outside the subgraph is passed over.
CompileNode ==
    /\ pc = "compile"
    /\ cidx <= Len(graph)
    /\ IF ~supported[cidx]
       THEN /\ cidx' = cidx + 1
            /\ UNCHANGED <<pc, model_tensors, op_list, last, ncalls>>
       ELSE /\ last' = Call(graph[cidx], FALSE,
                            AddToModelBuilder(model_tensors, op_list,
                                              SubgraphOutputs(graph, supported),
                                              graph[cidx], is_quantized_model, FALSE),
                            model_tensors, op_list)
            /\ model_tensors' = last'.tensors
            /\ op_list' = last'.ops
            /\ ncalls' = ncalls + 1
            /\ pc' = CASE last'.status.code = "OK" -> pc
                       [] last'.status.code = "FAIL" -> "compile_failed"
                       [] OTHER -> "aborted"
            /\ cidx' = IF last'.status.code = "OK" THEN cidx + 1 ELSE cidx
    /\ UNCHANGED <<is_quantized_model, graph, supported, arg, ret>>

\* Compile: every node unit of the subgraph was added.
FinishCompile ==
    /\ pc = "compile"
    /\ cidx > Len(graph)
    /\ pc' = "compiled"
    /\ UNCHANGED <<is_quantized_model, graph, supported, cidx, model_tensors, op_list,
                   last, ncalls, arg, ret>>

Next ==
    \/ \E nd \in NodeUnits : IsNodeSupported(nd)
    \/ GetCapabilityAgain
    \/ StartCompile
    \/ CompileNode
    \/ FinishCompile

Spec == Init /\ [][Next]_vars

----------------------------------------------------------------------------
(* ProcessAxisAttribute on its own: any rank, any axis attribute.          *)

Ones(n) == [i \in 1..n |-> 1]

AxisArgs ==
    [fn : {"ProcessAxisAttribute"},
     rank : 0..MaxRank,
     attrs : {NoAttrs} \cup {("axis" :> a) : a \in (-(MaxRank + 1))..(MaxRank + 1)},
     op_type : {"Gather", "ArgMax", "Softmax"},
     default_axis_value : {-1, 0, 1}]

InitAxis ==
    /\ arg \in AxisArgs
    /\ ret = NoArg
    /\ is_quantized_model = FALSE
    /\ graph = <<>>
    /\ supported = <<>>
    /\ pc = "idle"
    /\ cidx = 0
    /\ model_tensors = <<>>
    /\ op_list = <<>>
    /\ last = NoCall
    /\ ncalls = 0

CallProcessAxisAttribute ==
    /\ arg.fn = "ProcessAxisAttribute"
    /\ ret = NoArg
    /\ ret' = [fn |-> "ProcessAxisAttribute",
               out |-> ProcessAxisAttribute([ok |-> TRUE, shape |-> Ones(arg.rank)],
                                            arg.op_type, arg.attrs, <<>>,
                                            arg.default_axis_value)]
    /\ UNCHANGED <<is_quantized_model, graph, supported, pc, cidx, model_tensors,
                   op_list, last, ncalls, arg>>

NextAxis == CallProcessAxisAttribute

SpecAxis == InitAxis /\ [][NextAxis]_vars

----------------------------------------------------------------------------
(* OnnxDataTypeToQnnDataType on its own: every element type, both tables.  *)

Uncalled == [called |-> FALSE, ok |-> FALSE, qnn_data_type |-> ""]

TypeArgs ==
    [fn : {"OnnxDataTypeToQnnDataType"},
     onnx_data_type : OnnxTypes,
     qnn_data_type : {"QNN_DATATYPE_FLOAT_32", "QNN_DATATYPE_UNDEFINED",
                      "QNN_DATATYPE_INT_64"}]

InitTypes ==
    /\ arg \in TypeArgs
    /\ ret = [fn |-> "OnnxDataTypeToQnnDataType", plain |-> Uncalled, quantized |-> Uncalled]
    /\ is_quantized_model = FALSE
    /\ graph = <<>>
    /\ supported = <<>>
    /\ pc = "idle"
    /\ cidx = 0
    /\ model_tensors = <<>>
    /\ op_list = <<>>
    /\ last = NoCall
    /\ ncalls = 0

TypeResult(r) == [called |-> TRUE, ok |-> r.ok, qnn_data_type |-> r.qnn_data_type]

CallPlain ==
    /\ ~ret.plain.called
    /\ ret' = [ret EXCEPT !.plain =
                   TypeResult(OnnxDataTypeToQnnDataType(arg.onnx_data_type,
                                                        arg.qnn_data_type, FALSE))]
    /\ UNCHANGED <<is_quantized_model, graph, supported, pc, cidx, model_tensors,
                   op_list, last, ncalls, arg>>

CallQuantized ==
    /\ ~ret.quantized.called
    /\ ret' = [ret EXCEPT !.quantized =
                   TypeResult(OnnxDataTypeToQnnDataType(arg.onnx_data_type,
                                                        arg.qnn_data_type, TRUE))]
    /\ UNCHANGED <<is_quantized_model, graph, supported, pc, cidx, model_tensors,
                   op_list, last, ncalls, arg>>

NextTypes == CallPlain \/ CallQuantized

SpecTypes == InitTypes /\ [][NextTypes]_vars

----------------------------------------------------------------------------
(* qnn_utils: GetElementSizeByType and the operator<< formatters, each on   *)
(* its own.  A formatter's result is what it wrote to the stream and        *)
(* whether it returned the stream or left by an exception.                  *)

\* The Qnn_DataType_t values the tables and switches of qnn_utils list.
QnnDataTypes ==
    {"QNN_DATATYPE_INT_8", "QNN_DATATYPE_INT_16", "QNN_DATATYPE_INT_32",
     "QNN_DATATYPE_INT_64", "QNN_DATATYPE_UINT_8", "QNN_DATATYPE_UINT_16",
     "QNN_DATATYPE_UINT_32", "QNN_DATATYPE_UINT_64", "QNN_DATATYPE_FLOAT_16",
     "QNN_DATATYPE_FLOAT_32", "QNN_DATATYPE_BOOL_8",
     "QNN_DATATYPE_SFIXED_POINT_8", "QNN_DATATYPE_SFIXED_POINT_16",
     "QNN_DATATYPE_SFIXED_POINT_32", "QNN_DATATYPE_UFIXED_POINT_8",
     "QNN_DATATYPE_UFIXED_POINT_16", "QNN_DATATYPE_UFIXED_POINT_32"}

\* Values of a Qnn_DataType_t object that no table or switch lists: the
\* enumerator QNN_DATATYPE_UNDEFINED and a value that is no enumerator.
UnlistedDataTypes == {"QNN_DATATYPE_UNDEFINED", "0x0999"}

\* A uint32_t is kept as its four bytes, least significant first, and an
\* int64_t as its eight; U32(hi, lo) is the value hi * 2^16 + lo.
U32(hi, lo) == <<lo % 256, lo \div 256, hi % 256, hi \div 256>>

Digit(a, i) == IF i <= Len(a) THEN a[i] ELSE 0

\* The sum of the byte products that fall on byte k of a product.
RECURSIVE ColumnSum(_, _, _, _)
ColumnSum(a, b, k, i) ==
    IF i > k THEN 0 ELSE Digit(a, i) * Digit(b, k + 1 - i) + ColumnSum(a, b, k, i + 1)

RECURSIVE MulDigits(_, _, _, _, _)
MulDigits(a, b, n, k, carry) ==
    IF k > n THEN <<>>
    ELSE <<(ColumnSum(a, b, k, 1) + carry) % 256>>
             \o MulDigits(a, b, n, k + 1, (ColumnSum(a, b, k, 1) + carry) \div 256)

\* The low n bytes of the product of a and b.
Multiply(a, b, n) == MulDigits(a, b, n, 1, 0)

\* std::multiplies<uint32_t>: the product in unsigned 32-bit arithmetic.
multiplies_uint32(x, y) == Multiply(x, y, 4)

\* std::accumulate over dims from element i on; the accumulator has the
\* type of the initial value, uint32_t.
RECURSIVE accumulate(_, _, _)
accumulate(dims, i, init) ==
    IF i > Len(dims) THEN init
    ELSE accumulate(dims, i + 1, multiplies_uint32(init, dims[i]))

\* The conversion of the uint32_t result to the int64_t return type.
WidenToInt64(u) == u \o <<0, 0, 0, 0>>

\* A slip: the product is accumulated in 64 bits.
GetDataSize_WideAccumulator(dims) ==
    IF Len(dims) = 0 THEN WidenToInt64(U32(0, 0))
    ELSE LET RECURSIVE acc64(_, _)
             acc64(i, init) ==
                 IF i > Len(dims) THEN init
                 ELSE acc64(i + 1, Multiply(init, dims[i], 8))
         IN  acc64(1, WidenToInt64(U32(0, 1)))

\* GetDataSize.
GetDataSize(dims) ==
    IF Len(dims) = 0 THEN WidenToInt64(U32(0, 0))
    ELSE WidenToInt64(accumulate(dims, 1, U32(0, 1)))

\* GetElementSizeByType: data_type_to_size.
data_type_to_size ==
    ("QNN_DATATYPE_INT_8" :> 1) @@ ("QNN_DATATYPE_INT_16" :> 2) @@
    ("QNN_DATATYPE_INT_32" :> 4) @@ ("QNN_DATATYPE_INT_64" :> 8) @@
    ("QNN_DATATYPE_UINT_8" :> 1) @@ ("QNN_DATATYPE_UINT_16" :> 2) @@
    ("QNN_DATATYPE_UINT_32" :> 4) @@ ("QNN_DATATYPE_UINT_64" :> 8) @@
    ("QNN_DATATYPE_FLOAT_16" :> 2) @@ ("QNN_DATATYPE_FLOAT_32" :> 4) @@
    ("QNN_DATATYPE_BOOL_8" :> 1) @@
    ("QNN_DATATYPE_SFIXED_POINT_8" :> 1) @@ ("QNN_DATATYPE_SFIXED_POINT_16" :> 2) @@
    ("QNN_DATATYPE_SFIXED_POINT_32" :> 4) @@
    ("QNN_DATATYPE_UFIXED_POINT_8" :> 1) @@ ("QNN_DATATYPE_UFIXED_POINT_16" :> 2) @@
    ("QNN_DATATYPE_UFIXED_POINT_32" :> 4)

\* A slip: the 16-bit float is given the size of the 32-bit one.
GetElementSizeByType_Float16AsFour(data_type) ==
    IF data_type \notin DOMAIN data_type_to_size THEN 0
    ELSE IF data_type = "QNN_DATATYPE_FLOAT_16" THEN 4
    ELSE data_type_to_size[data_type]

\* GetElementSizeByType.
GetElementSizeByType(data_type) ==
    IF data_type \notin DOMAIN data_type_to_size THEN 0
    ELSE data_type_to_size[data_type]

\* What a formatter did: the tokens written, and thrown = TRUE when it left
\* by ORT_THROW instead of returning the stream.
Wrote(tokens) == [thrown |-> FALSE, out |-> tokens, msg |-> ""]
WroteThenThrew(tokens, m) == [thrown |-> TRUE, out |-> tokens, msg |-> m]

\* out << a << b: b is written only if a returned.
Then(a, b) ==
    IF a.thrown THEN a
    ELSE [thrown |-> b.thrown, out |-> a.out \o b.out, msg |-> b.msg]

\* out << v << " " for each v of a sequence of numbers.
Numbers(vs) ==
    [i \in 1..(2 * Len(vs)) |->
        IF i % 2 = 1 THEN ToString(vs[(i + 1) \div 2]) ELSE " "]

\* operator<<(std::ostream&, const Qnn_Scalar_t&).
FormatScalar(scalar) ==
    CASE scalar.dataType \in {"QNN_DATATYPE_INT_8", "QNN_DATATYPE_INT_16",
                              "QNN_DATATYPE_INT_32", "QNN_DATATYPE_UINT_8",
                              "QNN_DATATYPE_UINT_16", "QNN_DATATYPE_UINT_32",
                              "QNN_DATATYPE_FLOAT_32", "QNN_DATATYPE_BOOL_8"}
            -> Wrote(<<ToString(scalar.value)>>)
      [] scalar.dataType = "QNN_DATATYPE_INT_64" -> Wrote(<<"int64_t is not supported">>)
      [] scalar.dataType = "QNN_DATATYPE_UINT_64" -> Wrote(<<"uint64_t is not supported">>)
      [] scalar.dataType = "QNN_DATATYPE_FLOAT_16" -> Wrote(<<>>)
      [] scalar.dataType \in {"QNN_DATATYPE_SFIXED_POINT_8", "QNN_DATATYPE_SFIXED_POINT_16",
                              "QNN_DATATYPE_SFIXED_POINT_32", "QNN_DATATYPE_UFIXED_POINT_8",
                              "QNN_DATATYPE_UFIXED_POINT_16", "QNN_DATATYPE_UFIXED_POINT_32"}
            -> Wrote(<<"usigned fixedpoint data is not supported">>)
      [] OTHER -> WroteThenThrew(<<>>, "Unknown Qnn Data type")

\* operator<<(std::ostream&, const Qnn_DataType_t&).
FormatDataType(data_type) ==
    IF data_type \in QnnDataTypes THEN Wrote(<<data_type>>)
    ELSE WroteThenThrew(<<>>, "Unknown Qnn Data type")

\* operator<<(std::ostream&, const Qnn_Definition_t&).
FormatDefinition(definition) ==
    IF definition \in {"QNN_DEFINITION_IMPL_GENERATED", "QNN_DEFINITION_DEFINED",
                       "QNN_DEFINITION_UNDEFINED"}
    THEN Wrote(<<definition>>)
    ELSE Wrote(<<"Undefined">>)

\* operator<<(std::ostream&, const Qnn_QuantizationEncoding_t&).
FormatQuantizationEncoding(encoding) ==
    IF encoding \in {"QNN_QUANTIZATION_ENCODING_SCALE_OFFSET",
                     "QNN_QUANTIZATION_ENCODING_AXIS_SCALE_OFFSET"}
    THEN Wrote(<<encoding>>)
    ELSE Wrote(<<"Uknown quantization encoding">>)

\* operator<<(std::ostream&, const Qnn_QuantizeParams_t&).
FormatQuantizeParams(quantize_params) ==
    LET head == Then(Wrote(<<" encodingDefinition=">>),
                     FormatDefinition(quantize_params.encodingDefinition))
        enc == Then(Wrote(<<" encoding=">>),
                    FormatQuantizationEncoding(quantize_params.quantizationEncoding))
        so == Wrote(<<" scale=", ToString(quantize_params.scale),
                      " offset=", ToString(quantize_params.offset)>>)
    IN  IF quantize_params.encodingDefinition \in {"QNN_DEFINITION_IMPL_GENERATED",
                                                   "QNN_DEFINITION_DEFINED"}
        THEN IF quantize_params.quantizationEncoding = "QNN_QUANTIZATION_ENCODING_SCALE_OFFSET"
             THEN Then(head, Then(enc, so))
             ELSE Then(head, enc)
        ELSE head

\* operator<<(std::ostream&, const Qnn_TensorType_t&).
FormatTensorType(tensor_type) ==
    IF tensor_type \in {"QNN_TENSOR_TYPE_APP_WRITE", "QNN_TENSOR_TYPE_APP_READ",
                        "QNN_TENSOR_TYPE_APP_READWRITE", "QNN_TENSOR_TYPE_NATIVE",
                        "QNN_TENSOR_TYPE_STATIC", "QNN_TENSOR_TYPE_NULL"}
    THEN Wrote(<<tensor_type>>)
    ELSE Wrote(<<"Unsupported type">>)

\* operator<<(std::ostream&, const Qnn_TensorMemType_t&).
FormatTensorMemType(mem_type) ==
    IF mem_type \in {"QNN_TENSORMEMTYPE_RAW", "QNN_TENSORMEMTYPE_MEMHANDLE"}
    THEN Wrote(<<mem_type>>)
    ELSE Wrote(<<"Unsupported mem type">>)

\* operator<< <T>(std::ostream&, const Qnn_ClientBuffer_t&), T of 4 bytes:
\* at most 100 elements.  The buffer holds values below 2^31, which read
\* the same as uint32_t and as int32_t.
FormatClientBuffer(client_bufer) ==
    LET n == client_bufer.dataSize \div 4
        count == IF n > 100 THEN 100 ELSE n
    IN  Wrote(<<" clientBuf=(">> \o Numbers(SubSeq(client_bufer.data, 1, count)) \o <<")">>)

\* operator<<(std::ostream&, const Qnn_Tensor_t&).
FormatTensor(tensor) ==
    LET upto_type == Then(Wrote(<<" id=", ToString(tensor.id), " type=">>),
                          FormatTensorType(tensor.type))
        upto_data_type == Then(Then(upto_type,
                                    Wrote(<<" dataFormat=", ToString(tensor.dataFormat),
                                            " dataType=">>)),
                               FormatDataType(tensor.dataType))
        dims == Wrote(<<" rank=", ToString(tensor.rank), " maxDimensions=(">>
                      \o Numbers(SubSeq(tensor.maxDimensions, 1, tensor.rank))
                      \o <<")", " memType=">>)
        upto_mem == Then(Then(upto_data_type, dims), FormatTensorMemType(tensor.memType))
        buf == IF tensor.memType = "QNN_TENSORMEMTYPE_RAW"
               THEN FormatClientBuffer(tensor.clientBuf)
               ELSE Wrote(<<>>)
    IN  Then(Then(upto_mem, buf),
             Then(Wrote(<<" quantizeParams:">>), FormatQuantizeParams(tensor.quantizeParams)))

\* operator<<(std::ostream&, const Qnn_ParamType_t&).
FormatParamType(param_type) ==
    IF param_type \in {"QNN_PARAMTYPE_SCALAR", "QNN_PARAMTYPE_TENSOR"}
    THEN Wrote(<<param_type>>)
    ELSE Wrote(<<"Unknown type">>)

\* operator<<(std::ostream&, const Qnn_Param_t&).
FormatParam(qnn_param) ==
    LET head == Then(Then(Wrote(<<" type=">>), FormatParamType(qnn_param.paramType)),
                     Wrote(<<" name=", qnn_param.name>>))
    IN  IF qnn_param.paramType = "QNN_PARAMTYPE_TENSOR"
        THEN Then(head, FormatTensor(qnn_param.tensorParam))
        ELSE Then(head, Then(Wrote(<<" value=">>), FormatScalar(qnn_param.scalarParam)))

RECURSIVE FormatTensors(_)
\* out << tensors[i] << std::endl for each tensor.
FormatTensors(ts) ==
    IF ts = <<>> THEN Wrote(<<>>)
    ELSE Then(Then(FormatTensor(Head(ts)), Wrote(<<"\n">>)), FormatTensors(Tail(ts)))

RECURSIVE FormatParams(_)
\* out << params[i] << std::endl for each parameter.
FormatParams(ps) ==
    IF ps = <<>> THEN Wrote(<<>>)
    ELSE Then(Then(FormatParam(Head(ps)), Wrote(<<"\n">>)), FormatParams(Tail(ps)))

\* operator<<(std::ostream&, const Qnn_OpConfig_t&).
FormatOpConfig(op_definition) ==
    LET head == Wrote(<<"Qnn_OpConfig node name: ", op_definition.name,
                        " package_name: ", op_definition.packageName,
                        " QNN_op_type: ", op_definition.typeName,
                        " num_of_params: ", ToString(Len(op_definition.params)),
                        " num_of_inputs: ", ToString(Len(op_definition.inputTensors)),
                        " num_of_outputs: ", ToString(Len(op_definition.outputTensors)),
                        "\n", " node_inputs:", "\n">>)
    IN  Then(head,
        Then(FormatTensors(op_definition.inputTensors),
        Then(Wrote(<<" node_outputs:", "\n">>),
        Then(FormatTensors(op_definition.outputTensors),
        Then(Wrote(<<" node_params:", "\n">>),
             FormatParams(op_definition.params))))))

\* The values the formatters and GetElementSizeByType are called with.
AnyDataType == QnnDataTypes \cup UnlistedDataTypes

ScalarArgs == [dataType : AnyDataType, value : {0, 7}]

QuantizeParamsArgs ==
    [encodingDefinition : {"QNN_DEFINITION_IMPL_GENERATED", "QNN_DEFINITION_DEFINED",
                           "QNN_DEFINITION_UNDEFINED", "0x0007"},
     quantizationEncoding : {"QNN_QUANTIZATION_ENCODING_SCALE_OFFSET",
                             "QNN_QUANTIZATION_ENCODING_AXIS_SCALE_OFFSET", "0x0007"},
     scale : {2},
     offset : {0, -3}]

ClientBufferArgs ==
    {[data |-> <<>>, dataSize |-> 0],
     [data |-> <<5, 6>>, dataSize |-> 8],
     [data |-> [i \in 1..101 |-> i], dataSize |-> 404]}

TensorArgs ==
    {[id |-> 1, type |-> ty, dataFormat |-> 0, dataType |-> dt, rank |-> Len(dims),
      maxDimensions |-> dims, memType |-> mt, clientBuf |-> buf,
      quantizeParams |-> [encodingDefinition |-> "QNN_DEFINITION_UNDEFINED",
                          quantizationEncoding |-> "QNN_QUANTIZATION_ENCODING_SCALE_OFFSET",
                          scale |-> 0, offset |-> 0]] :
        ty \in {"QNN_TENSOR_TYPE_APP_WRITE", "QNN_TENSOR_TYPE_STATIC", "0x0009"},
        dt \in {"QNN_DATATYPE_FLOAT_32", "QNN_DATATYPE_UINT_32", "QNN_DATATYPE_UNDEFINED"},
        dims \in {<<>>, <<2, 3>>},
        mt \in {"QNN_TENSORMEMTYPE_RAW", "QNN_TENSORMEMTYPE_MEMHANDLE", "0x0003"},
        buf \in ClientBufferArgs}

\* A tensor as ProcessInputs builds it for a FLOAT graph input of shape
\* <<2, 3>>, and one whose data type no switch lists.
PlainTensor ==
    [id |-> 1, type |-> "QNN_TENSOR_TYPE_APP_WRITE", dataFormat |-> 0,
     dataType |-> "QNN_DATATYPE_FLOAT_32", rank |-> 2, maxDimensions |-> <<2, 3>>,
     memType |-> "QNN_TENSORMEMTYPE_RAW", clientBuf |-> [data |-> <<>>, dataSize |-> 0],
     quantizeParams |-> [encodingDefinition |-> "QNN_DEFINITION_UNDEFINED",
                         quantizationEncoding |-> "QNN_QUANTIZATION_ENCODING_SCALE_OFFSET",
                         scale |-> 0, offset |-> 0]]

UndefinedTensor == [PlainTensor EXCEPT !.dataType = "QNN_DATATYPE_UNDEFINED"]

ParamArgs ==
    {[paramType |-> "QNN_PARAMTYPE_SCALAR", name |-> "axis", scalarParam |-> sc] :
        sc \in [dataType : {"QNN_DATATYPE_UINT_32", "QNN_DATATYPE_INT_32",
                            "QNN_DATATYPE_BOOL_8", "QNN_DATATYPE_UNDEFINED"},
                value : {1}]}
    \cup {[paramType |-> pt, name |-> "perm", tensorParam |-> t,
           scalarParam |-> [dataType |-> "QNN_DATATYPE_UINT_32", value |-> 0]] :
            pt \in {"QNN_PARAMTYPE_TENSOR", "0x0005"},
            t \in {PlainTensor, UndefinedTensor}}

OpConfigArgs ==
    {[name |-> "node", packageName |-> "qti.aisw", typeName |-> "ArgMax",
      inputTensors |-> ins, outputTensors |-> outs, params |-> ps] :
        ins \in {<<>>, <<PlainTensor>>, <<PlainTensor, UndefinedTensor>>},
        outs \in {<<PlainTensor>>, <<UndefinedTensor>>},
        ps \in {<<>>} \cup {<<q>> : q \in ParamArgs}}

\* Dimensions handed to GetDataSize: 0, 1, 3, 2^16, 2^16 + 1, 2^31 and
\* 2^32 - 1.
DimValues ==
    {U32(0, 0), U32(0, 1), U32(0, 3), U32(1, 0), U32(1, 1), U32(32768, 0),
     U32(65535, 65535)}

DimsArgs == UNION {[1..n -> DimValues] : n \in 0..MaxDims}

UtilsArgs ==
    [fn : {"GetElementSizeByType"}, data_type : AnyDataType]
    \cup [fn : {"GetDataSize"}, dims : DimsArgs]
    \cup [fn : {"operator<<"}, kind : {"Qnn_Scalar_t"}, scalar : ScalarArgs]
    \cup [fn : {"operator<<"}, kind : {"Qnn_DataType_t"}, data_type : AnyDataType]
    \cup [fn : {"operator<<"}, kind : {"Qnn_Definition_t"},
          definition : {"QNN_DEFINITION_IMPL_GENERATED", "QNN_DEFINITION_DEFINED",
                        "QNN_DEFINITION_UNDEFINED", "0x0007"}]
    \cup [fn : {"operator<<"}, kind : {"Qnn_QuantizationEncoding_t"},
          encoding : {"QNN_QUANTIZATION_ENCODING_SCALE_OFFSET",
                      "QNN_QUANTIZATION_ENCODING_AXIS_SCALE_OFFSET", "0x0007"}]
    \cup [fn : {"operator<<"}, kind : {"Qnn_QuantizeParams_t"},
          quantize_params : QuantizeParamsArgs]
    \cup [fn : {"operator<<"}, kind : {"Qnn_TensorType_t"},
          tensor_type : {"QNN_TENSOR_TYPE_APP_WRITE", "QNN_TENSOR_TYPE_APP_READ",
                         "QNN_TENSOR_TYPE_APP_READWRITE", "QNN_TENSOR_TYPE_NATIVE",
                         "QNN_TENSOR_TYPE_STATIC", "QNN_TENSOR_TYPE_NULL", "0x0009"}]
    \cup [fn : {"operator<<"}, kind : {"Qnn_TensorMemType_t"},
          mem_type : {"QNN_TENSORMEMTYPE_RAW", "QNN_TENSORMEMTYPE_MEMHANDLE", "0x0003"}]
    \cup [fn : {"operator<<"}, kind : {"Qnn_Tensor_t"}, tensor : TensorArgs]
    \cup [fn : {"operator<<"}, kind : {"Qnn_ParamType_t"},
          param_type : {"QNN_PARAMTYPE_SCALAR", "QNN_PARAMTYPE_TENSOR", "0x0005"}]
    \cup [fn : {"operator<<"}, kind : {"Qnn_Param_t"}, qnn_param : ParamArgs]
    \cup [fn : {"operator<<"}, kind : {"Qnn_OpConfig_t"}, op_definition : OpConfigArgs]

InitUtils ==
    /\ arg \in UtilsArgs
    /\ ret = NoArg
    /\ is_quantized_model = FALSE
    /\ graph = <<>>
    /\ supported = <<>>
    /\ pc = "idle"
    /\ cidx = 0
    /\ model_tensors = <<>>
    /\ op_list = <<>>
    /\ last = NoCall
    /\ ncalls = 0

\* The call of a formatter of the given kind returned (or threw) r.
Formatted(kind, r) ==
    /\ ret' = [fn |-> "operator<<", kind |-> kind, out |-> r]
    /\ UNCHANGED <<is_quantized_model, graph, supported, pc, cidx, model_tensors,
                   op_list, last, ncalls, arg>>

IsFormatCall(kind) == ret = NoArg /\ arg.fn = "operator<<" /\ arg.kind = kind

CallGetDataSize ==
    /\ ret = NoArg
    /\ arg.fn = "GetDataSize"
    /\ ret' = [fn |-> "GetDataSize", size |-> GetDataSize(arg.dims)]
    /\ UNCHANGED <<is_quantized_model, graph, supported, pc, cidx, model_tensors,
                   op_list, last, ncalls, arg>>

CallGetElementSizeByType ==
    /\ ret = NoArg
    /\ arg.fn = "GetElementSizeByType"
    /\ ret' = [fn |-> "GetElementSizeByType", size |-> GetElementSizeByType(arg.data_type)]
    /\ UNCHANGED <<is_quantized_model, graph, supported, pc, cidx, model_tensors,
                   op_list, last, ncalls, arg>>

CallFormatScalar ==
    IsFormatCall("Qnn_Scalar_t") /\ Formatted("Qnn_Scalar_t", FormatScalar(arg.scalar))

CallFormatDataType ==
    IsFormatCall("Qnn_DataType_t") /\ Formatted("Qnn_DataType_t", FormatDataType(arg.data_type))

CallFormatDefinition ==
    IsFormatCall("Qnn_Definition_t")
        /\ Formatted("Qnn_Definition_t", FormatDefinition(arg.definition))

CallFormatQuantizationEncoding ==
    IsFormatCall("Qnn_QuantizationEncoding_t")
        /\ Formatted("Qnn_QuantizationEncoding_t", FormatQuantizationEncoding(arg.encoding))

CallFormatQuantizeParams ==
    IsFormatCall("Qnn_QuantizeParams_t")
        /\ Formatted("Qnn_QuantizeParams_t", FormatQuantizeParams(arg.quantize_params))

CallFormatTensorType ==
    IsFormatCall("Qnn_TensorType_t")
        /\ Formatted("Qnn_TensorType_t", FormatTensorType(arg.tensor_type))

CallFormatTensorMemType ==
    IsFormatCall("Qnn_TensorMemType_t")
        /\ Formatted("Qnn_TensorMemType_t", FormatTensorMemType(arg.mem_type))

CallFormatTensor ==
    IsFormatCall("Qnn_Tensor_t") /\ Formatted("Qnn_Tensor_t", FormatTensor(arg.tensor))

CallFormatParamType ==
    IsFormatCall("Qnn_ParamType_t")
        /\ Formatted("Qnn_ParamType_t", FormatParamType(arg.param_type))

CallFormatParam ==
    IsFormatCall("Qnn_Param_t") /\ Formatted("Qnn_Param_t", FormatParam(arg.qnn_param))

CallFormatOpConfig ==
    IsFormatCall("Qnn_OpConfig_t")
        /\ Formatted("Qnn_OpConfig_t", FormatOpConfig(arg.op_definition))

NextUtils ==
    \/ CallGetElementSizeByType
    \/ CallGetDataSize
    \/ CallFormatScalar
    \/ CallFormatDataType
    \/ CallFormatDefinition
    \/ CallFormatQuantizationEncoding
    \/ CallFormatQuantizeParams
    \/ CallFormatTensorType
    \/ CallFormatTensorMemType
    \/ CallFormatTensor
    \/ CallFormatParamType
    \/ CallFormatParam
    \/ CallFormatOpConfig

SpecUtils == InitUtils /\ [][NextUtils]_vars

----------------------------------------------------------------------------
(* Properties.                                                             *)

\* The declared outputs the accumulator in use was built against: the graph
\* outputs during GetCapability, the subgraph's outputs during Compile.
DeclaredOutputs == IF cidx = 0 THEN GraphOutputs ELSE SubgraphOutputs(graph, supported)

ActiveTable ==
    IF is_quantized_model THEN onnx_to_qnn_data_type_quantized ELSE onnx_to_qnn_data_type

UnsupportedType(name) == NodeArg(name).elem_type \notin DOMAIN ActiveTable

IsCall == last.kind = "call"

\* C1: for rank R >= 1 and an axis value a in [-R, R-1], ProcessAxisAttribute
\* succeeds and the axis parameter carries a + R if a < 0, else a, a value in
\* [0, R-1]; for a outside [-R, R-1] it fails and adds no axis parameter.
C1_AxisNormalization ==
    (ret.fn = "ProcessAxisAttribute" /\ arg.rank >= 1) =>
        LET R == arg.rank
            a == IF "axis" \in DOMAIN arg.attrs THEN arg.attrs["axis"]
                 ELSE arg.default_axis_value
            n == IF a < 0 THEN a + R ELSE a
            out == ret.out
        IN  IF -R <= a /\ a <= R - 1
            THEN /\ out.status.code = "OK"
                 /\ n \in 0..(R - 1)
                 /\ Len(out.node_params) = 1
                 /\ out.node_params[1].name = "axis"
                 /\ out.node_params[1].scalar.value = n
            ELSE /\ out.status.code # "OK"
                 /\ out.node_params = <<>>

\* Axis -1 on a rank-4 input gave the axis parameter 3.
C1_Witness ==
    /\ ret.fn = "ProcessAxisAttribute"
    /\ arg.rank = 4
    /\ arg.attrs = ("axis" :> -1)
    /\ ret.out.status.code = "OK"
    /\ ret.out.node_params[1].scalar.value = 3

\* C2: every failure of an op-builder call is a non-OK Status returned to
\* the caller; no call ends by throwing.
C2_FailuresAreStatusValues ==
    IsCall => last.status.code \in {"OK", "FAIL"}

\* C3 as stated: after a call with do_op_validation the tensor registry and
\* the operator list are what they were before the call.
C3_ValidateOnlyPersistsNothing ==
    (IsCall /\ last.do_op_validation) =>
        /\ model_tensors = last.tensors_before
        /\ op_list = last.ops_before

\* C3: after a call with do_op_validation the operator list is what it was,
\* every tensor registered before is unchanged, and the names the call
\* added to the registry are inputs of the node unit.
C3_ValidateOnlyKeepsOperators ==
    (IsCall /\ last.do_op_validation) =>
        /\ op_list = last.ops_before
        /\ \A n \in DOMAIN last.tensors_before :
               n \in DOMAIN model_tensors /\ model_tensors[n] = last.tensors_before[n]
        /\ (DOMAIN model_tensors) \ (DOMAIN last.tensors_before)
               \subseteq Names(last.node_unit.inputs)

\* A validate-only call that succeeded and left a new input in the registry.
C3_Witness ==
    /\ IsCall
    /\ last.do_op_validation
    /\ last.status.code = "OK"
    /\ DOMAIN model_tensors # DOMAIN last.tensors_before

\* C4: every node unit GetCapability accepted is added by Compile without
\* error (Compile calls AddToModelBuilder on accepted node units only).
C4_AcceptedSetCompiles ==
    (IsCall /\ ~last.do_op_validation) => last.status.code = "OK"

\* Names the operators of the accumulator produce.
OpOutputNames == UNION {Names(op_list[i].outputs) : i \in 1..Len(op_list)}

RoleOf(n) == model_tensors[n].tensor_type

RoleAsClaimed(n) ==
    /\ n \in DeclaredOutputs => RoleOf(n) = "QNN_TENSOR_TYPE_APP_READ"
    /\ IsInitializerInput(n) => RoleOf(n) = "QNN_TENSOR_TYPE_STATIC"
    /\ (n \notin DeclaredOutputs /\ ~IsInitializerInput(n) /\ n \in OpOutputNames)
           => RoleOf(n) = "QNN_TENSOR_TYPE_NATIVE"
    /\ (n \notin DeclaredOutputs /\ ~IsInitializerInput(n) /\ n \notin OpOutputNames)
           => RoleOf(n) = "QNN_TENSOR_TYPE_APP_WRITE"

OutputRole(n) ==
    IF n \in DeclaredOutputs THEN "QNN_TENSOR_TYPE_APP_READ" ELSE "QNN_TENSOR_TYPE_NATIVE"

\* C5 as stated: in every accumulator state a registered declared output is
\* APP_READ, an initializer is STATIC, any other tensor an operator produced
\* is NATIVE and any other tensor is APP_WRITE.
C5_RoleAssignment ==
    \A n \in DOMAIN model_tensors : RoleAsClaimed(n)

\* C5: a registered tensor that an appended operator produces is APP_READ
\* if its name is a declared output and NATIVE otherwise; any other
\* registered tensor was put there by ProcessInputs and is STATIC if an
\* initializer and APP_WRITE otherwise, a declared output included (every
\* tensor of the scratch accumulator of GetCapability is of this kind);
\* every output of an appended operator is APP_READ if a declared output and
\* NATIVE otherwise.
C5_RoleAssignmentByOrigin ==
    /\ \A n \in DOMAIN model_tensors :
           RoleOf(n) =
               IF n \in OpOutputNames
               THEN OutputRole(n)
               ELSE IF IsInitializerInput(n) THEN "QNN_TENSOR_TYPE_STATIC"
                    ELSE "QNN_TENSOR_TYPE_APP_WRITE"
    /\ \A i \in 1..Len(op_list) : \A j \in 1..Len(op_list[i].outputs) :
           op_list[i].outputs[j].tensor_type = OutputRole(op_list[i].outputs[j].name)

\* A Compile accumulator holding all four roles.
C5_Witness ==
    /\ cidx > 0
    /\ {RoleOf(n) : n \in DOMAIN model_tensors} =
           {"QNN_TENSOR_TYPE_APP_READ", "QNN_TENSOR_TYPE_STATIC",
            "QNN_TENSOR_TYPE_NATIVE", "QNN_TENSOR_TYPE_APP_WRITE"}

\* C6: when ProcessOutputs calls AddNode every input name handed over is in
\* the tensor registry, and every operator of the accumulator refers to
\* registered inputs only.
C6_InputsRegisteredAtAppend ==
    /\ (IsCall /\ last.add_node.called) => last.add_node.inputs_present
    /\ \A i \in 1..Len(op_list) : {op_list[i].input_names[k] : k \in 1..Len(op_list[i].input_names)} \subseteq DOMAIN model_tensors

\* An operator with two inputs was appended.
C6_Witness ==
    /\ IsCall
    /\ ~last.do_op_validation
    /\ last.add_node.called
    /\ Len(last.add_node.input_names) = 2
    /\ Len(op_list) = Len(last.ops_before) + 1

\* C7: a call on a node unit with an input already in the registry leaves
\* that entry as it was and does not fail at that input.
C7_RegistryIdempotence ==
    IsCall =>
        \A i \in 1..Len(last.node_unit.inputs) :
            LET n == last.node_unit.inputs[i].name
            IN  n \in DOMAIN last.tensors_before =>
                    /\ n \in DOMAIN model_tensors
                    /\ model_tensors[n] = last.tensors_before[n]
                    /\ last.fail_input # i

\* A sibling that shares "x", with quantization parameters of its own,
\* succeeded after "x" was registered.
C7_Witness ==
    /\ IsCall
    /\ last.status.code = "OK"
    /\ \E i \in 1..Len(last.node_unit.inputs) :
           /\ last.node_unit.inputs[i].name \in DOMAIN last.tensors_before
           /\ last.node_unit.inputs[i].quant_param.has_value

UnsupportedInputs(nd) == {i \in 1..Len(nd.inputs) : UnsupportedType(nd.inputs[i].name)}
UnsupportedOutputs(nd) == {i \in 1..Len(nd.outputs) : UnsupportedType(nd.outputs[i].name)}
UnsupportedNames(nd) ==
    {n \in Names(nd.inputs) \cup Names(nd.outputs) : UnsupportedType(n)}

HasUnsupported == UnsupportedNames(last.node_unit) # {}

\* C8 as stated: a validate-only call on a node unit with an input or output
\* of unsupported element type returns the unsupported-type error, appends
\* no operator, and leaves that tensor out of the registry.
C8_UnsupportedTypeError ==
    (IsCall /\ last.do_op_validation /\ HasUnsupported) =>
        /\ last.status = StatusFail(UnsupportedTypeMsg)
        /\ op_list = last.ops_before
        /\ UnsupportedNames(last.node_unit) \cap DOMAIN model_tensors = {}

\* C8: such a call appends no operator and leaves that tensor out of the
\* registry; it returns the unsupported-type error when the type lookup of
\* that tensor is the first check of the call to fail; an earlier input or
\* output that fails another check decides the error instead, and the call
\* returns OK only when every unsupported tensor is an output it never
\* looks at (beyond output_count_, or of a node unit without inputs).
C8_UnsupportedTypeNotRegistered ==
    (IsCall /\ last.do_op_validation /\ HasUnsupported) =>
        LET nd == last.node_unit
            bad_in == UnsupportedInputs(nd)
            bad_out == UnsupportedOutputs(nd)
        IN  /\ op_list = last.ops_before
            /\ UnsupportedNames(nd) \cap DOMAIN model_tensors = {}
            /\ bad_in # {} =>
                   /\ last.status.code = "FAIL"
                   /\ last.fail_input >= 1
                   /\ \A i \in bad_in : last.fail_input <= i
                   /\ last.fail_input \in bad_in => last.status = StatusFail(UnsupportedTypeMsg)
            /\ last.fail_output \in bad_out => last.status = StatusFail(UnsupportedTypeMsg)
            /\ last.status.code = "OK" =>
                   /\ bad_in = {}
                   /\ \/ Len(nd.inputs) = 0
                      \/ \A i \in bad_out : i > output_count_

\* A validate-only call registered its first input and returned the
\* unsupported-type error at its second.
C8_Witness ==
    /\ IsCall
    /\ last.do_op_validation
    /\ last.status = StatusFail(UnsupportedTypeMsg)
    /\ last.fail_input = 2
    /\ DOMAIN model_tensors # DOMAIN last.tensors_before

\* C9: a call that fails at any stage leaves the operator list as it was.
C9_FailedNodeAppendsNothing ==
    (IsCall /\ last.status.code # "OK") => op_list = last.ops_before

\* A node unit failed in Compile after an operator had been appended.
C9_Witness ==
    /\ IsCall
    /\ ~last.do_op_validation
    /\ last.status.code = "FAIL"
    /\ Len(op_list) >= 1

SubInt64Types == {"INT8", "INT16", "INT32", "UINT8", "UINT16", "UINT32"}

BothCalled ==
    /\ ret.fn = "OnnxDataTypeToQnnDataType"
    /\ ret.plain.called
    /\ ret.quantized.called

\* C10: for every element type the plain and the quantized mapping succeed
\* or fail together; their results differ only for INT8/16/32 and
\* UINT8/16/32, which get a fixed-point type in the quantized table alone;
\* for INT64, UINT64, BOOL, FLOAT16 and FLOAT both succeed with one result.
C10_QuantizedVsPlain ==
    BothCalled =>
        LET t == arg.onnx_data_type
            IsFixedPoint(q) ==
                q \in {"QNN_DATATYPE_SFIXED_POINT_8", "QNN_DATATYPE_SFIXED_POINT_16",
                       "QNN_DATATYPE_SFIXED_POINT_32", "QNN_DATATYPE_UFIXED_POINT_8",
                       "QNN_DATATYPE_UFIXED_POINT_16", "QNN_DATATYPE_UFIXED_POINT_32"}
        IN  /\ ret.plain.ok = ret.quantized.ok
            /\ ret.plain.qnn_data_type # ret.quantized.qnn_data_type => t \in SubInt64Types
            /\ t \in SubInt64Types =>
                   /\ ret.plain.ok
                   /\ IsFixedPoint(ret.quantized.qnn_data_type)
                   /\ ~IsFixedPoint(ret.plain.qnn_data_type)
            /\ t \in {"INT64", "UINT64", "BOOL", "FLOAT16", "FLOAT"} =>
                   /\ ret.plain.ok
                   /\ ret.plain.qnn_data_type = ret.quantized.qnn_data_type

\* INT64 went through both tables.
C10_Witness ==
    /\ BothCalled
    /\ arg.onnx_data_type = "INT64"
    /\ ret.plain.qnn_data_type = "QNN_DATATYPE_INT_64"

SelectLastIndexMsg == "QNN ArgMax/ArgMin only support select_last_index=0."

IsArgMaxMinCall == IsCall /\ last.node_unit.op_type \in {"ArgMax", "ArgMin"}

SelectLastIndex == NodeAttrGet(last.node_unit.attrs, "select_last_index", 0)

\* Input 0 of the node unit of the last call has a shape and the node's axis,
\* normalized, is in [0, rank-1].
AxisInRange ==
    LET sh == GetOnnxShape(last.node_unit.inputs[1].name)
        R == Len(sh.shape)
        a == NodeAttrGet(last.node_unit.attrs, "axis", 0)
        n == IF a < 0 THEN a + R ELSE a
    IN  sh.ok /\ n >= 0 /\ n < R

\* C11 as stated: an ArgMax/ArgMin node with a non-zero select_last_index
\* always gets the failure status naming the select_last_index restriction
\* and appends no operator; with the attribute absent or 0 and a valid axis
\* that status is not returned.
C11_SelectLastIndexAlwaysNamed ==
    IsArgMaxMinCall =>
        /\ SelectLastIndex # 0 =>
               /\ last.status = StatusFail(SelectLastIndexMsg)
               /\ ~last.add_node.called
               /\ op_list = last.ops_before
        /\ (SelectLastIndex = 0 /\ AxisInRange) =>
               last.status # StatusFail(SelectLastIndexMsg)

\* C11: an ArgMax/ArgMin node with a non-zero select_last_index never
\* succeeds and appends no operator; the status names the select_last_index
\* restriction when ProcessInputs succeeded and the axis is in range, and
\* otherwise the earlier failure (the error of ProcessInputs, or the
\* exception of the axis check) is the outcome; with the attribute absent or
\* 0 the restriction is never the status.
C11_SelectLastIndexRejected ==
    IsArgMaxMinCall =>
        /\ SelectLastIndex # 0 =>
               /\ last.status.code # "OK"
               /\ ~last.add_node.called
               /\ op_list = last.ops_before
               /\ (last.stage2_called /\ AxisInRange) =>
                      last.status = StatusFail(SelectLastIndexMsg)
               /\ ~last.stage2_called => last.fail_input >= 1
               /\ (last.stage2_called /\ ~AxisInRange) => last.status.code = "THROW"
        /\ SelectLastIndex = 0 => last.status # StatusFail(SelectLastIndexMsg)

\* An ArgMax node with select_last_index = 1 and a valid axis was rejected
\* with the status naming the restriction.
C11_Witness ==
    /\ IsArgMaxMinCall
    /\ SelectLastIndex # 0
    /\ AxisInRange
    /\ last.status = StatusFail(SelectLastIndexMsg)

\* C12: a node unit is reported supported only if a builder is registered
\* for its op type and its validate-only pipeline call returned OK; a node
\* unit of an unregistered op type is reported unsupported, no builder is
\* called for it and the query goes on.
C12_RegistryCompleteness ==
    /\ \A i \in 1..Len(graph) :
           supported[i] => GetOpBuilder(graph[i].op_type) # "NONE"
    /\ (cidx = 0 /\ Len(graph) >= 1) =>
           /\ last.node_unit = graph[Len(graph)]
           /\ supported[Len(graph)] =
                  (IsCall /\ last.do_op_validation /\ last.status.code = "OK")
    /\ last.kind = "no_builder" =>
           /\ GetOpBuilder(last.node_unit.op_type) = "NONE"
           /\ ~supported[Len(graph)]
           /\ pc \in {"capability", "requeried"}

\* The query passed over a node unit of an unregistered op type and then
\* accepted a later node unit.
C12_Witness ==
    /\ pc = "capability"
    /\ \E i \in 1..Len(graph) : \E j \in 1..Len(graph) :
           /\ i < j
           /\ GetOpBuilder(graph[i].op_type) = "NONE"
           /\ ~supported[i]
           /\ supported[j]

CompileStopped == pc \in {"compile_failed", "aborted"}

\* C14: a step of Compile in which a node unit's translation fails ends the
\* compilation of the subgraph with an error and stays at that node unit
\* (it is not passed over); once stopped, Compile never goes on to register
\* the subgraph's entry point (pc "compiled").
C14_CompileFailureAborts ==
    [][/\ (pc = "compile" /\ last'.kind = "call" /\ last'.status.code # "OK") =>
              /\ CompileStopped'
              /\ cidx' = cidx
              /\ last'.node_unit = graph[cidx]
       /\ pc = "compile_failed" => pc' = "compile_failed"
       /\ pc' = "compiled" =>
              /\ pc = "compile"
              /\ cidx > Len(graph)
              /\ last.status.code = "OK"]_vars

\* Compile stopped at a node unit after it had appended an operator for an
\* earlier one.
C14_Witness ==
    /\ pc = "compile_failed"
    /\ Len(op_list) >= 1
    /\ last.status.code = "FAIL"
    /\ supported[cidx]

\* C15: every call of a formatter returns the stream; none leaves by an
\* exception, whatever the value it is given.
C15_FormattersNeverThrow ==
    ret.fn = "operator<<" => ~ret.out.thrown

Bits8 ==
    {"QNN_DATATYPE_INT_8", "QNN_DATATYPE_UINT_8", "QNN_DATATYPE_BOOL_8",
     "QNN_DATATYPE_SFIXED_POINT_8", "QNN_DATATYPE_UFIXED_POINT_8"}

Bits16 ==
    {"QNN_DATATYPE_INT_16", "QNN_DATATYPE_UINT_16", "QNN_DATATYPE_FLOAT_16",
     "QNN_DATATYPE_SFIXED_POINT_16", "QNN_DATATYPE_UFIXED_POINT_16"}

Bits32 ==
    {"QNN_DATATYPE_INT_32", "QNN_DATATYPE_UINT_32", "QNN_DATATYPE_FLOAT_32",
     "QNN_DATATYPE_SFIXED_POINT_32", "QNN_DATATYPE_UFIXED_POINT_32"}

Bits64 == {"QNN_DATATYPE_INT_64", "QNN_DATATYPE_UINT_64"}

\* C16: GetElementSizeByType returns 1, 2, 4 or 8 for a type of 8, 16, 32 or
\* 64 bits, these being the 17 types of its table, and 0 for any other value.
C16_ElementSizeByType ==
    /\ Cardinality(Bits8 \cup Bits16 \cup Bits32 \cup Bits64) = 17
    /\ DOMAIN data_type_to_size = Bits8 \cup Bits16 \cup Bits32 \cup Bits64
    /\ ret.fn = "GetElementSizeByType" =>
           LET t == arg.data_type
           IN  /\ t \in Bits8 => ret.size = 1
               /\ t \in Bits16 => ret.size = 2
               /\ t \in Bits32 => ret.size = 4
               /\ t \in Bits64 => ret.size = 8
               /\ t \notin (Bits8 \cup Bits16 \cup Bits32 \cup Bits64) => ret.size = 0

\* The size of the 16-bit float was asked for and given as 2.
C16_Witness ==
    /\ ret.fn = "GetElementSizeByType"
    /\ arg.data_type = "QNN_DATATYPE_FLOAT_16"
    /\ ret.size = 2

\* What ProcessInputs gives for the node unit of the last call on the
\* registry that call started from.
LastProcessInputs ==
    ProcessInputs(last.tensors_before, last.node_unit, is_quantized_model,
                  last.do_op_validation)

\* C17: when ProcessInputs returns an error, AddToModelBuilder returns that
\* error, the second stage is not invoked and no operator is appended; the
\* second stage is invoked only after ProcessInputs went through all the
\* inputs, and then the status is that of the second stage.
C17_StageOrdering ==
    IsCall =>
        /\ LastProcessInputs.status.code # "OK" =>
               /\ last.status = LastProcessInputs.status
               /\ last.fail_input = LastProcessInputs.fail_input
               /\ ~last.stage2_called
               /\ ~last.add_node.called
               /\ op_list = last.ops_before
        /\ last.stage2_called =>
               /\ LastProcessInputs.status.code = "OK"
               /\ Len(last.input_names) = Len(last.node_unit.inputs)
               /\ last.fail_input = 0
        /\ (LastProcessInputs.status.code = "OK") = last.stage2_called

\* A call ended at its second input with the quantization error of
\* ProcessInputs, the second stage not invoked.
C17_Witness ==
    /\ IsCall
    /\ last.fail_input = 2
    /\ ~last.stage2_called
    /\ last.status = StatusFail("Cannot get quantization parameter")

IsBaseBuilderCall == IsCall /\ GetOpBuilder(last.node_unit.op_type) = "BaseOpBuilder"

\* What ProcessOutputs gives, called without parameters after the
\* ProcessInputs of the last call.
LastDefaultProcessOutputs ==
    ProcessOutputs(LastProcessInputs.tensors, last.ops_before, DeclaredOutputs,
                   last.node_unit, last.input_names, <<>>, is_quantized_model,
                   last.do_op_validation)

\* C18: the default second stage returns OK without calling AddNode and
\* leaves operator list and registry as they were when the input-name list
\* is empty; otherwise its status and effects are those of ProcessOutputs
\* called with the input names and no parameter.
C18_DefaultStage2 ==
    (IsBaseBuilderCall /\ last.stage2_called) =>
        /\ Len(last.input_names) = 0 =>
               /\ last.status = StatusOK
               /\ ~last.add_node.called
               /\ op_list = last.ops_before
               /\ model_tensors = last.tensors_before
        /\ Len(last.input_names) >= 1 =>
               /\ last.status = LastDefaultProcessOutputs.status
               /\ last.add_node = LastDefaultProcessOutputs.add_node
               /\ last.fail_output = LastDefaultProcessOutputs.fail_output
               /\ op_list = LastDefaultProcessOutputs.ops
               /\ model_tensors = LastDefaultProcessOutputs.tensors
               /\ last.add_node.called => last.add_node.op.params = <<>>

\* Compile went through a node unit without inputs: OK, nothing appended.
C18_Witness ==
    /\ IsBaseBuilderCall
    /\ ~last.do_op_validation
    /\ last.stage2_called
    /\ Len(last.node_unit.inputs) = 0
    /\ last.status = StatusOK
    /\ op_list = last.ops_before

\* The last call got as far as ProcessOutputs.
ReachedProcessOutputs ==
    /\ IsCall
    /\ last.stage2_called
    /\ IF IsBaseBuilderCall THEN Len(last.input_names) >= 1
       ELSE AxisInRange /\ SelectLastIndex = 0

OutputsBuilt ==
    IF Len(last.node_unit.outputs) < output_count_
    THEN Len(last.node_unit.outputs) ELSE output_count_

\* The operator op has the first OutputsBuilt outputs of the node unit, the
\* input names of the call and the parameters its builder accumulates
\* (none for the default stage, axis then keep_dims for ArgMax/ArgMin).
OperatorAsClaimed(op) ==
    /\ Len(op.outputs) = OutputsBuilt
    /\ \A j \in 1..OutputsBuilt : op.outputs[j].name = last.node_unit.outputs[j].name
    /\ op.input_names = last.input_names
    /\ op.input_names = [i \in 1..Len(last.node_unit.inputs) |-> last.node_unit.inputs[i].name]
    /\ IF IsBaseBuilderCall THEN op.params = <<>>
       ELSE /\ Len(op.params) = 2
            /\ op.params[1].name = "axis"
            /\ op.params[2].name = "keep_dims"

\* C19 as stated: a successful ProcessOutputs leaves exactly one more
\* operator in the operator list, with those outputs, inputs and
\* parameters; when an output's resolution fails the list is unchanged.
C19_SuccessAppendsOperator ==
    ReachedProcessOutputs =>
        /\ last.status.code = "OK" =>
               /\ Len(op_list) = Len(last.ops_before) + 1
               /\ SubSeq(op_list, 1, Len(last.ops_before)) = last.ops_before
               /\ OperatorAsClaimed(op_list[Len(op_list)])
        /\ last.fail_output >= 1 => op_list = last.ops_before

\* C19: a successful ProcessOutputs has handed exactly one operator, with
\* those outputs, inputs and parameters, to AddNode; without
\* do_op_validation it is the one operator added to the list, with
\* do_op_validation the list is unchanged; when an output's resolution
\* fails, AddNode is not called and the list is unchanged.
C19_SuccessHandsOperatorToAddNode ==
    ReachedProcessOutputs =>
        /\ last.status.code = "OK" =>
               /\ last.add_node.called
               /\ OperatorAsClaimed(last.add_node.op)
               /\ ~last.do_op_validation => op_list = Append(last.ops_before, last.add_node.op)
               /\ last.do_op_validation => op_list = last.ops_before
        /\ last.fail_output >= 1 =>
               /\ last.fail_output <= OutputsBuilt
               /\ last.status.code = "FAIL"
               /\ ~last.add_node.called
               /\ op_list = last.ops_before

\* Compile added the operator of an ArgMax node unit (two parameters).
C19_Witness ==
    /\ ReachedProcessOutputs
    /\ ~IsBaseBuilderCall
    /\ ~last.do_op_validation
    /\ last.status.code = "OK"
    /\ op_list = Append(last.ops_before, last.add_node.op)

AxisCallReturned == ret.fn = "ProcessAxisAttribute" /\ ret.out.status.code = "OK"

\* C20: when ProcessAxisAttribute succeeds it has added one axis parameter,
\* of type INT_32 exactly when the op type is "Gather" and UINT_32
\* otherwise, whose value is the normalized axis, and default_axis_value
\* holds the same normalized axis.
C20_AxisParamType ==
    AxisCallReturned =>
        LET R == arg.rank
            a == IF "axis" \in DOMAIN arg.attrs THEN arg.attrs["axis"]
                 ELSE arg.default_axis_value
            norm == IF a < 0 THEN a + R ELSE a
            ps == ret.out.node_params
        IN  /\ Len(ps) = 1
            /\ ps[1].name = "axis"
            /\ (ps[1].scalar.dataType = "QNN_DATATYPE_INT_32") = (arg.op_type = "Gather")
            /\ arg.op_type # "Gather" => ps[1].scalar.dataType = "QNN_DATATYPE_UINT_32"
            /\ ps[1].scalar.value = norm
            /\ ret.out.default_axis_value = norm

\* A Gather call with a negative axis gave a signed parameter and wrote the
\* normalized axis back.
C20_Witness ==
    /\ AxisCallReturned
    /\ arg.op_type = "Gather"
    /\ "axis" \in DOMAIN arg.attrs
    /\ arg.attrs["axis"] < 0
    /\ ret.out.node_params[1].scalar.dataType = "QNN_DATATYPE_INT_32"
    /\ ret.out.default_axis_value = arg.attrs["axis"] + arg.rank

----------------------------------------------------------------------------
(* Quantization parameters of the inputs one call registers.               *)

\* The inputs of the last call's node unit that the call registered: absent
\* from the registry before it, present after it, taken at the first place
\* the name stands in the input list.
NewlyRegisteredInputs ==
    {i \in 1..Len(last.node_unit.inputs) :
        /\ last.node_unit.inputs[i].name \notin DOMAIN last.tensors_before
        /\ last.node_unit.inputs[i].name \in DOMAIN last.tensors
        /\ \A j \in 1..(i - 1) :
              last.node_unit.inputs[j].name # last.node_unit.inputs[i].name}

\* The scale and offset an input has by itself: those of its own
\* quantization parameters, or the initial default when it has none.
OwnScaleOffset(iodef) ==
    IF iodef.quant_param.has_value
    THEN <<iodef.quant_param.scale, iodef.quant_param.offset>>
    ELSE <<InitializeQuantizeParam(is_quantized_model).scale,
           InitializeQuantizeParam(is_quantized_model).offset>>

RecordedScaleOffset(name) ==
    <<last.tensors[name].quantize_param.scale, last.tensors[name].quantize_param.offset>>

\* C21: the scale and offset in the descriptor of every input a call of
\* ProcessInputs newly registers are those of that input's own quantization
\* parameters, or the initial default when it has none, whatever an earlier
\* input of the same node unit resolved to.
C21_InputQuantizationIndependent ==
    IsCall =>
        \A i \in NewlyRegisteredInputs :
            RecordedScaleOffset(last.node_unit.inputs[i].name)
                = OwnScaleOffset(last.node_unit.inputs[i])

----------------------------------------------------------------------------
(* The input-name list of ProcessInputs.                                   *)

\* The names of the inputs of a node unit, in node-unit order.
InputNamesOf(nd) == [i \in 1..Len(nd.inputs) |-> nd.inputs[i].name]

\* C22: after ProcessInputs succeeded (the second stage was invoked), the
\* input-name list is the node unit's input names in node-unit order and of
\* the same length, names already registered and repeated names included,
\* and every name of the list is in the tensor registry.
C22_InputNamesComplete ==
    (IsCall /\ last.stage2_called) =>
        /\ last.input_names = InputNamesOf(last.node_unit)
        /\ Len(last.input_names) = Len(last.node_unit.inputs)
        /\ \A i \in 1..Len(last.input_names) :
               /\ last.input_names[i] \in DOMAIN last.tensors
               /\ last.input_names[i] \in DOMAIN model_tensors

\* A call on two inputs went through ProcessInputs with one of them
\* already in the registry: the list still names both.
C22_Witness ==
    /\ IsCall
    /\ last.stage2_called
    /\ Len(last.node_unit.inputs) = 2
    /\ \E i \in 1..2 : last.node_unit.inputs[i].name \in DOMAIN last.tensors_before
    /\ Len(last.input_names) = 2

----------------------------------------------------------------------------
(* The tensor registry over a sequence of translations.                    *)

\* A step on the accumulator in use (Compile starting on a fresh
\* accumulator is the one step that is not).
SameAccumulator == ~(pc = "capability" /\ pc' = "compile")

\* The inputs before the failing one that the last call registered.
RegisteredBeforeFailure ==
    {last.node_unit.inputs[j].name : j \in 1..(last.fail_input - 1)}
        \ DOMAIN last.tensors_before

\* C23: over any sequence of translations on one accumulator, successful or
\* failed and in either validation mode, every registered name stays
\* registered with the descriptor (role, type, shape, quantization encoding)
\* it was registered with; when ProcessInputs fails at input k, the inputs
\* before k that it registered are in the registry.
C23_RegistryOnlyGrows ==
    [][SameAccumulator =>
           /\ \A n \in DOMAIN model_tensors :
                  /\ n \in DOMAIN model_tensors'
                  /\ model_tensors'[n] = model_tensors[n]
           /\ (IsCall /\ last.fail_input >= 1)' =>
                  (RegisteredBeforeFailure \subseteq DOMAIN model_tensors)']_vars

\* On a registry that is not empty a call failed at its second input after
\* it had registered its first, which is in the registry.
C23_Witness ==
    /\ IsCall
    /\ last.fail_input = 2
    /\ last.tensors_before # <<>>
    /\ last.node_unit.inputs[1].name \in RegisteredBeforeFailure
    /\ last.node_unit.inputs[1].name \in DOMAIN model_tensors
    /\ \A n \in DOMAIN last.tensors_before : model_tensors[n] = last.tensors_before[n]

----------------------------------------------------------------------------
(* GetDataSize.                                                            *)

\* The product of all the dimensions, exact: 4 bytes more for each factor.
RECURSIVE TrueProduct(_, _, _)
TrueProduct(dims, i, p) ==
    IF i > Len(dims) THEN p
    ELSE TrueProduct(dims, i + 1, Multiply(p, dims[i], Len(p) + 4))

ArgProduct == TrueProduct(arg.dims, 1, <<1>>)

\* Two byte strings are the same number.
SameNumber(a, b) == \A j \in 1..(Len(a) + Len(b)) : Digit(a, j) = Digit(b, j)

\* The number is 2^32 or more.
AtLeastTwoTo32(a) == \E j \in 5..Len(a) : a[j] # 0

GetDataSizeReturned == ret # NoArg /\ ret.fn = "GetDataSize"

\* C24: GetDataSize returns 0 for an empty dimension list and otherwise the
\* true product of the dimensions modulo 2^32 as a non-negative 64-bit
\* value; a product of 2^32 or more is not returned exactly, a smaller one
\* is.
C24_GetDataSizeModulo ==
    GetDataSizeReturned =>
        /\ Len(ret.size) = 8
        /\ \A j \in 5..8 : ret.size[j] = 0
        /\ Len(arg.dims) = 0 => SameNumber(ret.size, <<0>>)
        /\ Len(arg.dims) > 0 =>
               /\ \A j \in 1..4 : ret.size[j] = Digit(ArgProduct, j)
               /\ AtLeastTwoTo32(ArgProduct) => ~SameNumber(ret.size, ArgProduct)
               /\ ~AtLeastTwoTo32(ArgProduct) => SameNumber(ret.size, ArgProduct)

\* (2^16 + 1) * (2^16 + 1) * 3 = 3 * 2^32 + 393219 came back as 393219.
C24_Witness ==
    /\ GetDataSizeReturned
    /\ arg.dims = <<U32(1, 1), U32(1, 1), U32(0, 3)>>
    /\ AtLeastTwoTo32(ArgProduct)
    /\ ret.size = WidenToInt64(U32(6, 3))


====
